---- MODULE Spec2Model ----
(***************************************************************************)
(* Code statistics analyzer (src/src/backend/CodeStats.cpp) and the export *)
(* request handler that drives it (src/src/frontend/WebServer.cpp).        *)
(*                                                                         *)
(* Text is modelled by TLA+ strings; a position is 1-based and 0 stands    *)
(* for std::string::npos.  A filesystem path is the sequence of its        *)
(* components below "/"; path.string() is rebuilt from it by PathStr.      *)
(***************************************************************************)
EXTENDS Integers, Sequences, FiniteSets, TLC

VARIABLES
    world,      \* the filesystem and working directory the process runs in
    caller,     \* "none" | "direct" (facade call) | "export" (POST /codestats/export)
    body,       \* request body of the export request
    format,     \* parseFormat(body) as held by the export handler
    root,       \* analyze(): argument root, as a string
    options,    \* analyze(): argument options
    pc,         \* position inside analyze() / the handler
    result,     \* analyze(): CodeStatsResult under construction
    ec,         \* analyze(): std::error_code ec is set
    it,         \* analyze(): recursive_directory_iterator
    visited,    \* paths handed to visitFile, in call order
    walked,     \* analyzeAll was entered for the current request
    response,   \* HTTP status the export handler answered with (0: none yet)
    op,         \* the function applied on its own ("none": not yet)
    arg,        \* its argument
    ret         \* its return value

\* the state of one request and of the analyze() call it makes
requestVars == <<world, caller, body, format, root, options, pc, result, ec, it,
                 visited, walked, response>>

\* the state of a function applied on its own
callVars == <<op, arg, ret>>

vars == <<requestVars, callVars>>

----------------------------------------------------------------------------
(* Bounds of the model *)

\* symbolic links followed while resolving one path before ELOOP is reported
MaxSymlinkHops == 2

----------------------------------------------------------------------------
(* std::string helpers *)

Min(S) == CHOOSE x \in S : \A y \in S : x <= y

Max(S) == CHOOSE x \in S : \A y \in S : x >= y

CharAt(s, i) == SubSeq(s, i, i)

\* s.substr(from - 1): the tail of s starting at 1-based position from
SubstrFrom(s, from) == SubSeq(s, from, Len(s))

\* s.find(needle, from - 1), 1-based; 0 when there is no occurrence
FindFrom(s, needle, from) ==
    LET hits == { i \in from..(Len(s) - Len(needle) + 1) :
                    SubSeq(s, i, i + Len(needle) - 1) = needle }
    IN  IF hits = {} THEN 0 ELSE Min(hits)

Find(s, needle) == FindFrom(s, needle, 1)

Contains(s, needle) == Find(s, needle) # 0

\* s.rfind(prefix, 0) == 0
StartsWith(s, prefix) ==
    Len(s) >= Len(prefix) /\ SubSeq(s, 1, Len(prefix)) = prefix

\* s.find_first_of(chars), 1-based; 0 when none
FindFirstOf(s, chars) ==
    LET hits == { i \in 1..Len(s) : CharAt(s, i) \in chars }
    IN  IF hits = {} THEN 0 ELSE Min(hits)

\* s.find_last_of(chars), 1-based; 0 when none
FindLastOf(s, chars) ==
    LET hits == { i \in 1..Len(s) : CharAt(s, i) \in chars }
    IN  IF hits = {} THEN 0 ELSE Max(hits)

\* std::isspace in the "C" locale
SpaceChars == {" ", "\t", "\n", "\r", "\f"}

trim(input) ==
    LET solid == { i \in 1..Len(input) : CharAt(input, i) \notin SpaceChars }
    IN  IF solid = {} THEN "" ELSE SubSeq(input, Min(solid), Max(solid))

leadingSpaces(line) ==
    LET other == { i \in 1..Len(line) : CharAt(line, i) # " " }
    IN  IF other = {} THEN Len(line) ELSE Min(other) - 1

countChar(text, target) ==
    Cardinality({ i \in 1..Len(text) : CharAt(text, i) = target })

UpperChars == <<"A","B","C","D","E","F","G","H","I","J","K","L","M",
                "N","O","P","Q","R","S","T","U","V","W","X","Y","Z">>

LowerChars == <<"a","b","c","d","e","f","g","h","i","j","k","l","m",
                "n","o","p","q","r","s","t","u","v","w","x","y","z">>

\* std::tolower on one character
LowerChar(c) ==
    IF \E k \in 1..26 : UpperChars[k] = c
    THEN LowerChars[CHOOSE k \in 1..26 : UpperChars[k] = c]
    ELSE c

RECURSIVE toLowerCopy(_)
toLowerCopy(value) ==
    IF value = "" THEN ""
    ELSE LowerChar(Head(value)) \o toLowerCopy(Tail(value))

----------------------------------------------------------------------------
(* File contents: the lines std::getline yields *)

SrcAddC ==
    << "/* add two numbers */",
       "int add(int a, int b) {",
       "    return a + b; // sum",
       "}",
       "",
       "int main(void)",
       "{",
       "    return add(1, 2);",
       "}" >>

SrcUtilCpp ==
    << "#include <x>",
       "/* block",
       " * continued",
       " */",
       "static int sq(int v) { return v * v; }",
       "",
       "int open(int v) {",
       "    if (v) {",
       "        return 1;" >>

SrcJava ==
    << "// J",
       "class J {",
       "    int one() {",
       "        return 1;",
       "    }",
       "}" >>

SrcCs ==
    << "int Two()",
       "{ return 2; }" >>

SrcPyF ==
    << "def f():",
       "    x = 1",
       "    y = 2" >>

SrcPyTwo ==
    << "# helpers",
       "def g(a):",
       "    return a",
       "",
       "def h(): pass" >>

SrcPyNested ==
    << "def outer():",
       "    def inner():",
       "        return 1",
       "    # done",
       "    return inner",
       "x = 1" >>

SrcPyPlain ==
    << "x = 1",
       "",
       "# no functions" >>

SrcText == << "def not_code():", "int f() {", "}" >>

----------------------------------------------------------------------------
(* The filesystem *)

Dir      == [kind |-> "dir",  perm |-> TRUE,  target |-> <<>>, content |-> <<>>]

\* a directory with mode 000: it can be neither listed nor searched
LockedDir == [kind |-> "dir", perm |-> FALSE, target |-> <<>>, content |-> <<>>]

File(c)  == [kind |-> "file", perm |-> TRUE,  target |-> <<>>, content |-> c]

\* a regular file that cannot be opened for reading
LockedFile(c) == [kind |-> "file", perm |-> FALSE, target |-> <<>>, content |-> c]

Link(t)  == [kind |-> "link", perm |-> TRUE,  target |-> t,    content |-> <<>>]

\* what every world has outside the workspace /w
Outside ==
    ( <<>>                  :> Dir ) @@
    ( <<"etc">>             :> Dir ) @@
    ( <<"etc", "p.py">>     :> File(SrcPyF) ) @@
    ( <<"wE">>              :> Dir ) @@
    ( <<"wE", "x.py">>      :> File(SrcPyF) ) @@
    ( <<"loop">>            :> Link(<<"loop">>) ) @@
    ( <<"w">>               :> Dir )

\* links that lead out of the workspace, a nested directory
FsGuard ==
    Outside @@
    ( <<"w", "a.py">>           :> File(SrcPyF) ) @@
    ( <<"w", "out">>            :> Link(<<"etc">>) ) @@
    ( <<"w", "sub">>            :> Dir ) @@
    ( <<"w", "sub", "b.c">>     :> File(SrcAddC) ) @@
    ( <<"w", "sub", "n.txt">>   :> File(SrcText) )

\* excluded directory names at several depths
FsTree ==
    Outside @@
    ( <<"w", ".git">>                          :> Dir ) @@
    ( <<"w", ".git", "h.c">>                   :> File(SrcAddC) ) @@
    ( <<"w", "src">>                           :> Dir ) @@
    ( <<"w", "src", "m.c">>                    :> File(SrcAddC) ) @@
    ( <<"w", "src", "u.cpp">>                  :> File(SrcUtilCpp) ) @@
    ( <<"w", "src", "bin">>                    :> Dir ) @@
    ( <<"w", "src", "bin", "t.py">>            :> File(SrcPyTwo) ) @@
    ( <<"w", "lib">>                           :> Dir ) @@
    ( <<"w", "lib", "J.java">>                 :> File(SrcJava) ) @@
    ( <<"w", "lib", "logs">>                   :> Dir ) @@
    ( <<"w", "lib", "logs", "l.cs">>           :> File(SrcCs) ) @@
    ( <<"w", "lib", "node_modules">>           :> Dir ) @@
    ( <<"w", "lib", "node_modules", "d">>      :> Dir ) @@
    ( <<"w", "lib", "node_modules", "d", "n.java">> :> File(SrcJava) )

\* several files of one language, unreadable entries
FsStats ==
    Outside @@
    ( <<"w", "stats">>                 :> Dir ) @@
    ( <<"w", "stats", "p1.py">>        :> File(SrcPyF) ) @@
    ( <<"w", "stats", "p2.py">>        :> File(SrcPyTwo) ) @@
    ( <<"w", "stats", "p3.py">>        :> File(SrcPyNested) ) @@
    ( <<"w", "stats", "p4.py">>        :> File(SrcPyPlain) ) @@
    ( <<"w", "priv">>                  :> Dir ) @@
    ( <<"w", "priv", "locked">>        :> LockedDir ) @@
    ( <<"w", "priv", "k.py">>          :> File(SrcPyF) ) @@
    ( <<"w", "cyc">>                   :> Dir ) @@
    ( <<"w", "cyc", "self">>           :> Link(<<"w", "cyc", "self">>) ) @@
    ( <<"w", "cyc", "c.cs">>           :> LockedFile(SrcCs) )

\* the working directory lies below a directory that cannot be searched
FsSealed ==
    Outside @@
    ( <<"sealed">>          :> LockedDir ) @@
    ( <<"sealed", "ws">>    :> Dir )

Worlds ==
    ( "guard"  :> [fs |-> FsGuard,  cwd |-> <<"w">>] ) @@
    ( "tree"   :> [fs |-> FsTree,   cwd |-> <<"w">>] ) @@
    ( "stats"  :> [fs |-> FsStats,  cwd |-> <<"w">>] ) @@
    ( "atroot" :> [fs |-> FsGuard,  cwd |-> <<>>] ) @@
    ( "sealed" :> [fs |-> FsSealed, cwd |-> <<"sealed", "ws">>] )

WorldNames == DOMAIN Worlds

----------------------------------------------------------------------------
(* std::filesystem::path and the filesystem calls analyze() makes *)

FS == Worlds[world].fs

\* std::filesystem::current_path()
current_path == Worlds[world].cwd

\* path::string() of an absolute path: "/" for the root directory
RECURSIVE PathStr(_)
PathStr(p) ==
    IF p = <<>> THEN "/"
    ELSE IF Len(p) = 1 THEN "/" \o p[1]
    ELSE PathStr(SubSeq(p, 1, Len(p) - 1)) \o "/" \o p[Len(p)]

\* path(text).relative_path(), as the sequence of its components
RECURSIVE relative_path(_)
relative_path(text) ==
    IF text = "" THEN <<>>
    ELSE LET slash == Find(text, "/")
         IN  IF slash = 0 THEN <<text>>
             ELSE IF slash = 1 THEN relative_path(Tail(text))
             ELSE <<SubSeq(text, 1, slash - 1)>>
                      \o relative_path(SubstrFrom(text, slash + 1))

\* path::filename()
filename(p) == IF p = <<>> THEN "" ELSE p[Len(p)]

\* path::extension(): from the last "." of the filename, unless that is its
\* first character or the filename is "." or ".."
extension(p) ==
    LET name == filename(p)
        dot  == FindLastOf(name, {"."})
    IN  IF name \in {".", ".."} \/ dot <= 1 THEN ""
        ELSE SubstrFrom(name, dot)

Parent(p) == IF p = <<>> THEN <<>> ELSE SubSeq(p, 1, Len(p) - 1)

StOk(p)   == [st |-> "ok", path |-> p]
StMissing == [st |-> "missing", path |-> <<>>]
StError   == [st |-> "error", path |-> <<>>]

\* stat(2) of cur/rest with every symbolic link followed: the physical
\* path, ENOENT/ENOTDIR ("missing"), or EACCES/ELOOP ("error")
RECURSIVE Resolve(_, _, _)
Resolve(cur, rest, hops) ==
    IF rest = <<>> THEN StOk(cur)
    ELSE IF FS[cur].kind # "dir" THEN StMissing
    ELSE IF ~FS[cur].perm THEN StError
    ELSE LET c == Head(rest) IN
         IF c = "." THEN Resolve(cur, Tail(rest), hops)
         ELSE IF c = ".." THEN Resolve(Parent(cur), Tail(rest), hops)
         ELSE LET nxt == Append(cur, c) IN
              IF nxt \notin DOMAIN FS THEN StMissing
              ELSE IF FS[nxt].kind = "link"
                   THEN IF hops = 0 THEN StError
                        ELSE Resolve(<<>>, FS[nxt].target \o Tail(rest), hops - 1)
                   ELSE Resolve(nxt, Tail(rest), hops)

\* std::filesystem::status(p, ec)
Status(p) == Resolve(<<>>, p, MaxSymlinkHops)

\* path::lexically_normal() of an absolute path
RECURSIVE LexNormal(_, _)
LexNormal(done, rest) ==
    IF rest = <<>> THEN done
    ELSE IF Head(rest) = "." THEN LexNormal(done, Tail(rest))
    ELSE IF Head(rest) = ".." THEN LexNormal(Parent(done), Tail(rest))
    ELSE LexNormal(Append(done, Head(rest)), Tail(rest))

\* std::filesystem::weakly_canonical(p, ec): [ec, path].  The leading
\* components that exist are resolved physically, the others are appended
\* and normalised lexically.
weakly_canonical(p) ==
    LET whole == Status(p) IN
    IF whole.st = "ok" THEN [ec |-> FALSE, path |-> whole.path]
    ELSE IF whole.st = "error" THEN [ec |-> TRUE, path |-> <<>>]
    ELSE LET stop  == Min({ k \in 1..Len(p) : Status(SubSeq(p, 1, k)).st # "ok" })
             lead  == Status(SubSeq(p, 1, stop - 1))
             first == Status(SubSeq(p, 1, stop))
         IN  IF first.st = "error" THEN [ec |-> TRUE, path |-> <<>>]
             ELSE [ec |-> FALSE,
                   path |-> LexNormal(lead.path, SubSeq(p, stop, Len(p)))]

\* lines 227-233: the prefix test on the two path strings
isSubDirMissingSeparator(workspaceStr, requestedStr) ==
    /\ Len(requestedStr) >= Len(workspaceStr)
    /\ SubSeq(requestedStr, 1, Len(workspaceStr)) = workspaceStr

isSubDir(workspaceStr, requestedStr) ==
    /\ Len(requestedStr) >= Len(workspaceStr)
    /\ SubSeq(requestedStr, 1, Len(workspaceStr)) = workspaceStr
    /\ \/ Len(requestedStr) = Len(workspaceStr)
       \/ CharAt(requestedStr, Len(workspaceStr) + 1) = "/"

\* lines 42-48 with "node_modules" missing from the list
isDirectoryExcludedNoNodeModules(p) ==
    LET name == filename(p) IN
    IF name = "" THEN FALSE
    ELSE name \in {".git", "bin", "logs"}

\* lines 42-48
isDirectoryExcluded(p) ==
    LET name == filename(p) IN
    IF name = "" THEN FALSE
    ELSE name \in {".git", "bin", "logs", "node_modules"}

hasExtension(p, extensions) == extension(p) \in extensions

----------------------------------------------------------------------------
(* computeLineMetrics *)

\* lines 69-108: one line of the loop.  kind is "blank", "comment" or
\* "logical"; next is inBlockComment after the line.
\* the loop body with line 85 dropped: block-comment mode ends after any
\* non-blank line read inside it
classifyLineOneLineBlock(line, language, inBlockComment) ==
    LET trimmed == trim(line) IN
    IF trimmed = "" THEN [kind |-> "blank", next |-> inBlockComment]
    ELSE IF language = "Python"
    THEN [kind |-> IF CharAt(trimmed, 1) = "#" THEN "comment" ELSE "logical",
          next |-> inBlockComment]
    ELSE IF inBlockComment
    THEN [kind |-> "comment", next |-> FALSE]
    ELSE IF StartsWith(trimmed, "//")
    THEN [kind |-> "comment", next |-> FALSE]
    ELSE IF StartsWith(trimmed, "/*")
    THEN [kind |-> "comment", next |-> ~Contains(trimmed, "*/")]
    ELSE LET blockPos == Find(trimmed, "/*") IN
         [kind |-> IF StartsWith(trimmed, "*") THEN "comment" ELSE "logical",
          next |-> blockPos # 0 /\ FindFrom(trimmed, "*/", blockPos + 2) = 0]

\* lines 68-118 with the blank-line branch (70-75) also leaving block-comment
\* mode
classifyLineBlankClosesBlock(line, language, inBlockComment) ==
    LET trimmed == trim(line) IN
    IF trimmed = "" THEN [kind |-> "blank", next |-> FALSE]
    ELSE IF language = "Python"
    THEN [kind |-> IF CharAt(trimmed, 1) = "#" THEN "comment" ELSE "logical",
          next |-> inBlockComment]
    ELSE IF inBlockComment
    THEN [kind |-> "comment", next |-> ~Contains(trimmed, "*/")]
    ELSE IF StartsWith(trimmed, "//")
    THEN [kind |-> "comment", next |-> FALSE]
    ELSE IF StartsWith(trimmed, "/*")
    THEN [kind |-> "comment", next |-> ~Contains(trimmed, "*/")]
    ELSE LET blockPos == Find(trimmed, "/*") IN
         [kind |-> IF StartsWith(trimmed, "*") THEN "comment" ELSE "logical",
          next |-> blockPos # 0 /\ FindFrom(trimmed, "*/", blockPos + 2) = 0]

classifyLine(line, language, inBlockComment) ==
    LET trimmed == trim(line) IN
    IF trimmed = "" THEN [kind |-> "blank", next |-> inBlockComment]
    ELSE IF language = "Python"
    THEN [kind |-> IF CharAt(trimmed, 1) = "#" THEN "comment" ELSE "logical",
          next |-> inBlockComment]
    ELSE IF inBlockComment
    THEN [kind |-> "comment", next |-> ~Contains(trimmed, "*/")]
    ELSE IF StartsWith(trimmed, "//")
    THEN [kind |-> "comment", next |-> FALSE]
    ELSE IF StartsWith(trimmed, "/*")
    THEN [kind |-> "comment", next |-> ~Contains(trimmed, "*/")]
    ELSE LET blockPos == Find(trimmed, "/*") IN
         [kind |-> IF StartsWith(trimmed, "*") THEN "comment" ELSE "logical",
          next |-> blockPos # 0 /\ FindFrom(trimmed, "*/", blockPos + 2) = 0]

ZeroMetrics == [logical |-> 0, blank |-> 0, comment |-> 0]

\* lines 68-118 with line 114 dropped: logical is incremented for comment
\* lines as well
RECURSIVE MetricsLoopCommentAlsoLogical(_, _, _, _, _, _, _)
MetricsLoopCommentAlsoLogical(lines, i, language, includeBlank, includeComment, inBlockComment, metrics) ==
    IF i > Len(lines) THEN metrics
    ELSE LET c == classifyLine(lines[i], language, inBlockComment) IN
         MetricsLoopCommentAlsoLogical(lines, i + 1, language, includeBlank,
             includeComment, c.next,
             [logical |-> metrics.logical + (IF c.kind # "blank" THEN 1 ELSE 0),
              blank   |-> metrics.blank
                            + (IF c.kind = "blank" /\ includeBlank THEN 1 ELSE 0),
              comment |-> metrics.comment
                            + (IF c.kind = "comment" /\ includeComment THEN 1 ELSE 0)])

RECURSIVE MetricsLoop(_, _, _, _, _, _, _)
MetricsLoop(lines, i, language, includeBlank, includeComment, inBlockComment, metrics) ==
    IF i > Len(lines) THEN metrics
    ELSE LET c == classifyLine(lines[i], language, inBlockComment) IN
         MetricsLoop(lines, i + 1, language, includeBlank, includeComment, c.next,
             [logical |-> metrics.logical + (IF c.kind = "logical" THEN 1 ELSE 0),
              blank   |-> metrics.blank
                            + (IF c.kind = "blank" /\ includeBlank THEN 1 ELSE 0),
              comment |-> metrics.comment
                            + (IF c.kind = "comment" /\ includeComment THEN 1 ELSE 0)])

\* std::ifstream(filePath).is_open(), and the lines it then yields
CanOpen(filePath) ==
    LET s == Status(filePath) IN
    s.st = "ok" /\ FS[s.path].kind = "file" /\ FS[s.path].perm

Lines(filePath) == FS[Status(filePath).path].content

computeLineMetrics(filePath, language, includeBlank, includeComment) ==
    IF ~CanOpen(filePath) THEN ZeroMetrics
    ELSE MetricsLoop(Lines(filePath), 1, language, includeBlank, includeComment,
                     FALSE, ZeroMetrics)

----------------------------------------------------------------------------
(* analyzePythonFile *)

\* lines 375-386
PythonFunctionName(trimmedLine) ==
    LET nameStart == Find(trimmedLine, " ") + 1
        paren     == FindFrom(trimmedLine, "(", nameStart)
        nameEnd   == IF paren # 0 THEN paren
                     ELSE FindFrom(trimmedLine, ":", nameStart)
    IN  IF nameEnd # 0 /\ nameEnd > nameStart
        THEN SubSeq(trimmedLine, nameStart, nameEnd - 1)
        ELSE "unknown"

\* lines 388-397 with the blank lines of the body counted as well
RECURSIVE PythonBodyLengthCountsBlank(_, _, _, _)
PythonBodyLengthCountsBlank(lines, j, indent, length) ==
    IF j > Len(lines) THEN length
    ELSE LET trimmedBodyLine == trim(lines[j])
             bodyIndent      == leadingSpaces(lines[j])
         IN  IF /\ trimmedBodyLine # ""
                /\ bodyIndent <= indent
                /\ ~StartsWith(trimmedBodyLine, "#")
             THEN length
             ELSE PythonBodyLengthCountsBlank(lines, j + 1, indent, length + 1)

\* lines 388-397: the length reached when the body loop stops
RECURSIVE PythonBodyLength(_, _, _, _)
PythonBodyLength(lines, j, indent, length) ==
    IF j > Len(lines) THEN length
    ELSE LET trimmedBodyLine == trim(lines[j])
             bodyIndent      == leadingSpaces(lines[j])
         IN  IF /\ trimmedBodyLine # ""
                /\ bodyIndent <= indent
                /\ ~StartsWith(trimmedBodyLine, "#")
             THEN length
             ELSE PythonBodyLength(lines, j + 1, indent,
                      IF trimmedBodyLine # "" THEN length + 1 ELSE length)

Detail(language, name, filePath, lineNumber, length) ==
    [language |-> language, name |-> name, filePath |-> filePath,
     lineNumber |-> lineNumber, length |-> length]

\* lines 368-409 with the outer loop resumed behind the body just measured:
\* the functions nested in it get no record of their own
RECURSIVE PythonLoopSkipsBody(_, _, _)
PythonLoopSkipsBody(lines, i, filePath) ==
    IF i > Len(lines) THEN <<>>
    ELSE LET trimmedLine == trim(lines[i]) IN
         IF StartsWith(trimmedLine, "def ")
         THEN LET length == PythonBodyLength(lines, i + 1, leadingSpaces(lines[i]), 1)
              IN  <<Detail("Python", PythonFunctionName(trimmedLine),
                           filePath, i, length)>>
                  \o PythonLoopSkipsBody(lines, i + length, filePath)
         ELSE PythonLoopSkipsBody(lines, i + 1, filePath)

\* lines 368-409: the records appended for lines i..end
RECURSIVE PythonLoop(_, _, _)
PythonLoop(lines, i, filePath) ==
    IF i > Len(lines) THEN <<>>
    ELSE LET trimmedLine == trim(lines[i]) IN
         IF StartsWith(trimmedLine, "def ")
         THEN LET length == PythonBodyLength(lines, i + 1, leadingSpaces(lines[i]), 1)
              IN  (IF length > 0
                   THEN <<Detail("Python", PythonFunctionName(trimmedLine),
                                 filePath, i, length)>>
                   ELSE <<>>)
                  \o PythonLoop(lines, i + 1, filePath)
         ELSE PythonLoop(lines, i + 1, filePath)

\* the FunctionDetail records analyzePythonFile appends to the summary
analyzePythonFile(filePath) ==
    IF ~CanOpen(filePath) THEN <<>>
    ELSE PythonLoop(Lines(filePath), 1, filePath)

----------------------------------------------------------------------------
(* analyzeBraceLanguageFile *)

ControlKeywords ==
    {"if", "for", "while", "switch", "catch", "return", "else",
     "class", "struct", "enum", "case", "default", "using", "typedef"}

\* isControlKeyword knowing the loop keywords only
isControlKeywordLoopsOnly(token) == token \in {"for", "while"}

isControlKeyword(token) == token \in ControlKeywords

looksLikeFunctionSignature(signature) ==
    LET trimmedSignature == trim(signature)
        parenOpen  == Find(trimmedSignature, "(")
        parenClose == Find(trimmedSignature, ")")
        lower      == toLowerCopy(trimmedSignature)
        firstSpace == FindFirstOf(lower, {" ", "\t", "("})
    IN  IF trimmedSignature = "" THEN FALSE
        ELSE IF parenOpen = 0 \/ parenClose = 0 \/ parenClose < parenOpen THEN FALSE
        ELSE IF \/ CharAt(trimmedSignature, 1) = "#"
                \/ CharAt(trimmedSignature, Len(trimmedSignature)) = ";" THEN FALSE
        ELSE IF firstSpace # 0 /\ isControlKeyword(SubSeq(lower, 1, firstSpace - 1))
             THEN FALSE
        ELSE IF Contains(lower, " operator") THEN TRUE
        ELSE IF Contains(lower, " namespace ") \/ StartsWith(lower, "namespace")
             THEN FALSE
        ELSE TRUE

extractFunctionName(signature) ==
    LET parenPos == Find(signature, "(")
        left     == trim(SubSeq(signature, 1, parenPos - 1))
        tokenStart == FindLastOf(left, {" ", "\t", ":", "*", "&"})
        candidate  == IF tokenStart = 0 THEN left ELSE SubstrFrom(left, tokenStart + 1)
    IN  IF parenPos = 0 THEN "anonymous"
        ELSE IF left = "" THEN "anonymous"
        ELSE IF candidate = "" THEN "anonymous"
        ELSE candidate

\* stripInlineComment leaving the line as it is
stripInlineCommentKeepsAll(line) == line

stripInlineComment(line) ==
    LET commentPos == Find(line, "//") IN
    IF commentPos # 0 THEN SubSeq(line, 1, commentPos - 1) ELSE line

\* lines 426-434: the locals of analyzeBraceLanguageFile; out are the records
\* appended to the summary so far
BraceInit ==
    [signatureBuffer |-> "", signatureStartLine |-> 0, pendingSignatureLines |-> 0,
     awaitingBody |-> FALSE, insideFunction |-> FALSE, braceDepth |-> 0,
     functionLength |-> 0, functionStartLine |-> 0, functionName |-> "",
     out |-> <<>>]

\* lines 436-441
resetSignature(st) ==
    [st EXCEPT !.signatureBuffer = "", !.signatureStartLine = 0,
               !.pendingSignatureLines = 0, !.awaitingBody = FALSE]

\* lines 447-494: one line while no function body is open
BraceScanStep(st, i, codeLine, language, filePath) ==
    LET trimmed == trim(codeLine) IN
    IF trimmed = ""
    THEN IF ~st.awaitingBody THEN resetSignature(st) ELSE st
    ELSE LET startLine == IF st.signatureBuffer = "" THEN i
                          ELSE st.signatureStartLine
             buffer    == st.signatureBuffer \o " " \o codeLine
             pending   == st.pendingSignatureLines + 1
             awaiting  == st.awaitingBody \/ Contains(buffer, "(")
             s1 == [st EXCEPT !.signatureBuffer = buffer,
                              !.signatureStartLine = startLine,
                              !.pendingSignatureLines = pending,
                              !.awaitingBody = awaiting]
             depth == countChar(codeLine, "{") - countChar(codeLine, "}")
         IN  IF awaiting /\ Contains(codeLine, "{")
             THEN IF looksLikeFunctionSignature(buffer)
                  THEN IF depth <= 0
                       THEN [resetSignature(s1) EXCEPT
                               !.insideFunction = FALSE,
                               !.functionStartLine = startLine,
                               !.braceDepth = depth,
                               !.functionLength = 0,
                               !.functionName = "",
                               !.out = Append(st.out,
                                   Detail(language, extractFunctionName(buffer),
                                          filePath, startLine, pending))]
                       ELSE [s1 EXCEPT
                               !.insideFunction = TRUE,
                               !.functionStartLine = startLine,
                               !.functionName = extractFunctionName(buffer),
                               !.functionLength = pending,
                               !.braceDepth = depth]
                  ELSE resetSignature(s1)
             ELSE IF ~awaiting /\ Contains(codeLine, ";")
             THEN resetSignature(s1)
             ELSE s1

\* lines 496-518: one line while a function body is open
\* lines 496-518 with the line that closes the body left out of the length
BraceBodyStepSkipsClosing(st, codeLine, language, filePath) ==
    LET length == IF trim(codeLine) # "" THEN st.functionLength + 1
                  ELSE st.functionLength
        depth  == st.braceDepth + countChar(codeLine, "{") - countChar(codeLine, "}")
    IN  IF depth <= 0
        THEN [resetSignature(st) EXCEPT
                !.insideFunction = FALSE,
                !.braceDepth = 0,
                !.functionLength = 0,
                !.functionName = "",
                !.out = Append(st.out,
                    Detail(language,
                           IF st.functionName = "" THEN "anonymous"
                           ELSE st.functionName,
                           filePath, st.functionStartLine, st.functionLength))]
        ELSE [st EXCEPT !.functionLength = length, !.braceDepth = depth]

BraceBodyStep(st, codeLine, language, filePath) ==
    LET length == IF trim(codeLine) # "" THEN st.functionLength + 1
                  ELSE st.functionLength
        depth  == st.braceDepth + countChar(codeLine, "{") - countChar(codeLine, "}")
    IN  IF depth <= 0
        THEN [resetSignature(st) EXCEPT
                !.insideFunction = FALSE,
                !.braceDepth = 0,
                !.functionLength = 0,
                !.functionName = "",
                !.out = Append(st.out,
                    Detail(language,
                           IF st.functionName = "" THEN "anonymous"
                           ELSE st.functionName,
                           filePath, st.functionStartLine, length))]
        ELSE [st EXCEPT !.functionLength = length, !.braceDepth = depth]

\* lines 443-519 followed by a record for the function still open at the
\* end of the file
RECURSIVE BraceLoopFlushAtEnd(_, _, _, _, _)
BraceLoopFlushAtEnd(lines, i, st, language, filePath) ==
    IF i > Len(lines)
    THEN IF st.insideFunction
         THEN [st EXCEPT !.out = Append(st.out,
                  Detail(language, st.functionName, filePath,
                         st.functionStartLine, st.functionLength))]
         ELSE st
    ELSE LET codeLine == stripInlineComment(lines[i]) IN
         BraceLoopFlushAtEnd(lines, i + 1,
                   IF ~st.insideFunction
                   THEN BraceScanStep(st, i, codeLine, language, filePath)
                   ELSE BraceBodyStep(st, codeLine, language, filePath),
                   language, filePath)

\* lines 443-519 with a record started for a one-line function met while a
\* body is open
RECURSIVE BraceLoopNestedRecords(_, _, _, _, _)
BraceLoopNestedRecords(lines, i, st, language, filePath) ==
    IF i > Len(lines) THEN st
    ELSE LET codeLine == stripInlineComment(lines[i])
             inner == Contains(codeLine, "(") /\ Contains(codeLine, "{")
                         /\ looksLikeFunctionSignature(codeLine)
                         /\ countChar(codeLine, "{") = countChar(codeLine, "}")
             st1 == IF st.insideFunction /\ inner
                    THEN [st EXCEPT !.out = Append(st.out,
                            Detail(language, extractFunctionName(codeLine),
                                   filePath, i, 1))]
                    ELSE st
         IN  BraceLoopNestedRecords(lines, i + 1,
                   IF ~st.insideFunction
                   THEN BraceScanStep(st, i, codeLine, language, filePath)
                   ELSE BraceBodyStep(st1, codeLine, language, filePath),
                   language, filePath)

\* lines 443-519: the state after lines i..end
RECURSIVE BraceLoop(_, _, _, _, _)
BraceLoop(lines, i, st, language, filePath) ==
    IF i > Len(lines) THEN st
    ELSE LET codeLine == stripInlineComment(lines[i]) IN
         BraceLoop(lines, i + 1,
                   IF ~st.insideFunction
                   THEN BraceScanStep(st, i, codeLine, language, filePath)
                   ELSE BraceBodyStep(st, codeLine, language, filePath),
                   language, filePath)

\* the FunctionDetail records analyzeBraceLanguageFile appends to the summary
analyzeBraceLanguageFile(filePath, language) ==
    IF ~CanOpen(filePath) THEN <<>>
    ELSE BraceLoop(Lines(filePath), 1, BraceInit, language, filePath).out

----------------------------------------------------------------------------
(* CodeStatsResult and visitFile *)

\* a double that is the quotient of two integers
Rat(n, d) == [num |-> n, den |-> d]

\* FunctionSummary{}
EmptyFunctions ==
    [functionCount |-> 0, averageLength |-> Rat(0, 1), minLength |-> 0,
     maxLength |-> 0, medianLength |-> Rat(0, 1), lengths |-> <<>>,
     details |-> <<>>]

\* LanguageSummary{}
EmptySummary ==
    [fileCount |-> 0, lineCount |-> 0, blankLineCount |-> 0,
     commentLineCount |-> 0, functions |-> EmptyFunctions]

\* CodeStatsResult{}; languageSummaries is a function on the keys present
EmptyResult ==
    [languageSummaries |-> [k \in {} |-> EmptySummary], totalLines |-> 0, totalBlankLines |-> 0,
     totalCommentLines |-> 0, withinWorkspace |-> TRUE, directoryExists |-> TRUE,
     includeBlankLines |-> FALSE, includeCommentLines |-> FALSE,
     includedLanguages |-> {}]

\* lines 302-321
LanguageOf(filePath) ==
    IF hasExtension(filePath, {".c"}) THEN "C"
    ELSE IF hasExtension(filePath,
                {".C", ".cc", ".cpp", ".cxx", ".h", ".hpp", ".hh", ".hxx"}) THEN "C++"
    ELSE IF hasExtension(filePath, {".cs"}) THEN "C#"
    ELSE IF hasExtension(filePath, {".java"}) THEN "Java"
    ELSE IF hasExtension(filePath, {".py"}) THEN "Python"
    ELSE ""

RECURSIVE LengthsOf(_)
LengthsOf(details) ==
    IF details = <<>> THEN <<>>
    ELSE <<Head(details).length>> \o LengthsOf(Tail(details))

\* unordered_map::operator[]: the entry, value-initialised when absent
SummaryAt(summaries, key) ==
    IF key \in DOMAIN summaries THEN summaries[key] ELSE EmptySummary

\* unordered_map::try_emplace(key, LanguageSummary{})
TryEmplace(summaries, key) ==
    IF key \in DOMAIN summaries THEN summaries ELSE summaries @@ (key :> EmptySummary)

\* lines 336-346, the totals of the result (blank and comment lines
\* are added to the logical ones)
AddToTotalsAllLines(res, metrics, opts) ==
    [res EXCEPT
       !.totalLines = @ + metrics.logical + metrics.blank + metrics.comment,
       !.totalBlankLines =
           IF opts.includeBlankLines THEN @ + metrics.blank ELSE @,
       !.totalCommentLines =
           IF opts.includeCommentLines THEN @ + metrics.comment ELSE @]

\* lines 336-346, the totals of the result
AddToTotals(res, metrics, opts) ==
    [res EXCEPT
       !.totalLines = @ + metrics.logical,
       !.totalBlankLines =
           IF opts.includeBlankLines THEN @ + metrics.blank ELSE @,
       !.totalCommentLines =
           IF opts.includeCommentLines THEN @ + metrics.comment ELSE @]

\* lines 336-352 with the blank lines counted as logical lines
AddToSummaryBlankAsLogical(summary, metrics, found, opts) ==
    [summary EXCEPT
       !.fileCount = @ + 1,
       !.lineCount = @ + metrics.logical + metrics.blank,
       !.blankLineCount =
           IF opts.includeBlankLines THEN @ + metrics.blank ELSE @,
       !.commentLineCount =
           IF opts.includeCommentLines THEN @ + metrics.comment ELSE @,
       !.functions.lengths = @ \o LengthsOf(found),
       !.functions.details = @ \o found]

\* lines 336-352, the language's summary: found are the records the
\* extractor appends
AddToSummary(summary, metrics, found, opts) ==
    [summary EXCEPT
       !.fileCount = @ + 1,
       !.lineCount = @ + metrics.logical,
       !.blankLineCount =
           IF opts.includeBlankLines THEN @ + metrics.blank ELSE @,
       !.commentLineCount =
           IF opts.includeCommentLines THEN @ + metrics.comment ELSE @,
       !.functions.lengths = @ \o LengthsOf(found),
       !.functions.details = @ \o found]

\* lines 331-352: the counted file is added to result
CountFile(filePath, languageKey, res, opts) ==
    LET metrics == computeLineMetrics(filePath, languageKey,
                                      opts.includeBlankLines, opts.includeCommentLines)
        found   == IF languageKey = "Python" THEN analyzePythonFile(filePath)
                   ELSE analyzeBraceLanguageFile(filePath, languageKey)
        new     == AddToSummary(SummaryAt(res.languageSummaries, languageKey),
                                metrics, found, opts)
    IN  AddToTotals([res EXCEPT
                       !.includedLanguages = @ \cup {languageKey},
                       !.languageSummaries =
                           (languageKey :> new) @@ res.languageSummaries],
                    metrics, opts)

\* CodeStatsAnalyzer::visitFile: result after the call
\* visitFile with line 327 moved above the test of line 323: the key is
\* inserted into includedLanguages before the requested languages are looked at
visitFileKeyBeforeFilter(filePath, res, opts) ==
    LET languageKey == LanguageOf(filePath) IN
    IF languageKey = "" THEN res
    ELSE IF opts.languages # {} /\ languageKey \notin opts.languages
         THEN [res EXCEPT !.includedLanguages = @ \cup {languageKey}]
    ELSE CountFile(filePath, languageKey, res, opts)

visitFile(filePath, res, opts) ==
    LET languageKey == LanguageOf(filePath) IN
    IF languageKey = "" THEN res
    ELSE IF opts.languages # {} /\ languageKey \notin opts.languages THEN res
    ELSE CountFile(filePath, languageKey, res, opts)

----------------------------------------------------------------------------
(* Finalisation, lines 261-287 *)

RECURSIVE Sum(_)
Sum(seq) == IF seq = <<>> THEN 0 ELSE Head(seq) + Sum(Tail(seq))

\* the lengths left in discovery order
SortLengthsNoSort(lengths) == lengths

\* std::sort(lengths.begin(), lengths.end())
SortLengths(lengths) == SortSeq(lengths, LAMBDA a, b : a < b)

\* the upper middle element, whatever the count
MedianUpperMiddle(sorted) == Rat(sorted[(Len(sorted) \div 2) + 1], 1)

\* lines 279-286, on the sorted lengths
Median(sorted) ==
    LET mid == Len(sorted) \div 2 IN
    IF Len(sorted) % 2 = 0 THEN Rat(sorted[mid] + sorted[mid + 1], 2)
    ELSE Rat(sorted[mid + 1], 1)

\* lines 262-286 with functionCount taken as the number of different lengths
FinalizeFunctionsCountsDistinct(fnSummary) ==
    IF fnSummary.lengths = <<>>
    THEN [fnSummary EXCEPT !.functionCount = 0, !.minLength = 0, !.maxLength = 0,
                           !.averageLength = Rat(0, 1), !.medianLength = Rat(0, 1)]
    ELSE LET sorted == SortLengths(fnSummary.lengths)
             n      == Len(sorted)
         IN  [fnSummary EXCEPT
                !.lengths = sorted,
                !.functionCount = Cardinality({ sorted[i] : i \in 1..n }),
                !.minLength = sorted[1],
                !.maxLength = sorted[n],
                !.averageLength = Rat(Sum(sorted), n),
                !.medianLength = Median(sorted)]

\* lines 262-286: the body of the loop over the summaries
FinalizeFunctions(fnSummary) ==
    IF fnSummary.lengths = <<>>
    THEN [fnSummary EXCEPT !.functionCount = 0, !.minLength = 0, !.maxLength = 0,
                           !.averageLength = Rat(0, 1), !.medianLength = Rat(0, 1)]
    ELSE LET sorted == SortLengths(fnSummary.lengths)
             n      == Len(sorted)
         IN  [fnSummary EXCEPT
                !.lengths = sorted,
                !.functionCount = n,
                !.minLength = sorted[1],
                !.maxLength = sorted[n],
                !.averageLength = Rat(Sum(sorted), n),
                !.medianLength = Median(sorted)]

FinalizeAll(summaries) ==
    [k \in DOMAIN summaries |->
        [summaries[k] EXCEPT !.functions = FinalizeFunctions(@)]]

\* lines 289-294
RECURSIVE EmplaceAll(_, _)
EmplaceAll(summaries, keys) ==
    IF keys = {} THEN summaries
    ELSE LET k == CHOOSE x \in keys : TRUE IN
         EmplaceAll(TryEmplace(summaries, k), keys \ {k})

\* the languages are recorded as included, their summaries are not created
ForceInsertIncludedOnly(res, opts) ==
    IF opts.languages # {}
    THEN [res EXCEPT !.includedLanguages = @ \cup opts.languages]
    ELSE res

ForceInsert(res, opts) ==
    IF opts.languages # {}
    THEN [res EXCEPT !.languageSummaries = EmplaceAll(@, opts.languages),
                     !.includedLanguages = @ \cup opts.languages]
    ELSE res

----------------------------------------------------------------------------
(* std::filesystem::recursive_directory_iterator *)

\* the entries readdir yields for directory d
Children(d) == { q \in DOMAIN FS : Len(q) = Len(d) + 1 /\ SubSeq(q, 1, Len(d)) = d }

\* opendir(d) succeeds
CanList(d) ==
    LET s == Status(d) IN
    s.st = "ok" /\ FS[s.path].kind = "dir" /\ FS[s.path].perm

\* the end iterator
EndIterator == [end |-> TRUE, stack |-> <<>>, cur |-> <<>>, pending |-> TRUE]

\* directory_entry::status().type(): "dir", "file", "none" for a dangling
\* link, or "error" when status() throws
EntryType(entry) ==
    IF FS[entry].kind # "link" THEN FS[entry].kind
    ELSE LET s == Status(entry) IN
         IF s.st = "ok" THEN FS[s.path].kind
         ELSE IF s.st = "missing" THEN "none"
         ELSE "error"

\* the directory levels left once exhausted ones are popped
RECURSIVE PopExhausted(_)
PopExhausted(stack) ==
    IF stack = <<>> THEN <<>>
    ELSE IF stack[Len(stack)] = {} THEN PopExhausted(SubSeq(stack, 1, Len(stack) - 1))
    ELSE stack

\* the iterator positioned on entry e, taken from the innermost open level
Positioned(stack, e) ==
    [end |-> FALSE,
     stack |-> [stack EXCEPT ![Len(stack)] = @ \ {e}],
     cur |-> e,
     pending |-> TRUE]

\* the iterators that operator++ may leave behind: readdir order is
\* unspecified, so any entry not yet returned from the innermost level
Advance(stack) ==
    LET open == PopExhausted(stack) IN
    IF open = <<>> THEN {EndIterator}
    ELSE { Positioned(open, e) : e \in open[Len(open)] }

\* operator++ descends into the current entry
Descends(iter) == iter.pending /\ FS[iter.cur].kind = "dir"

\* operator++ throws filesystem_error: the directory cannot be opened
IncrementThrows(iter) == Descends(iter) /\ ~FS[iter.cur].perm

Increment(iter) ==
    IF Descends(iter) THEN Advance(Append(iter.stack, Children(iter.cur)))
    ELSE Advance(iter.stack)

----------------------------------------------------------------------------
(* WebServer: crc32, writeLE16, writeLE32 and ZipBuilder.  A std::string of
   bytes is a sequence of numbers 0..255; a std::uint32_t is the sequence of
   its 32 bits, lowest first. *)

\* static_cast<std::uint32_t>(n) of a number below 2^31
Bits32(n) == [i \in 1..32 |-> IF i = 32 THEN 0 ELSE (n \div (2 ^ (i - 1))) % 2]

\* operator^ on two std::uint32_t
Xor32(a, b) == [i \in 1..32 |-> (a[i] + b[i]) % 2]

\* operator>> on a std::uint32_t
Shr32(a, n) == [i \in 1..32 |-> IF i + n <= 32 THEN a[i + n] ELSE 0]

\* 0xEDB88320U
CrcPolynomial ==
    [i \in 1..32 |->
        IF (i - 1) \in {31, 30, 29, 27, 26, 24, 23, 21, 20, 19, 15, 9, 8, 5}
        THEN 1 ELSE 0]

\* 0xFFFFFFFFU
AllOnes32 == [i \in 1..32 |-> 1]

\* x & 0xFF, as a number
LowByte(a) ==
    a[1] + 2 * a[2] + 4 * a[3] + 8 * a[4] + 16 * a[5] + 32 * a[6] + 64 * a[7] + 128 * a[8]

\* lines 234-240: j rounds of the inner loop on crc
RECURSIVE CrcRounds(_, _)
CrcRounds(crc, j) ==
    IF j = 0 THEN crc
    ELSE CrcRounds(IF crc[1] = 1 THEN Xor32(Shr32(crc, 1), CrcPolynomial)
                   ELSE Shr32(crc, 1),
                   j - 1)

\* table[i] with the inner loop of lines 234-240 run seven times
CrcTableSevenRounds(i) == CrcRounds(Bits32(i), 7)

\* table[i]
CrcTable(i) == CrcRounds(Bits32(i), 8)

\* lines 247-249: the loop over the bytes of data from position k on
RECURSIVE CrcLoop(_, _, _)
CrcLoop(data, k, crc) ==
    IF k > Len(data) THEN crc
    ELSE CrcLoop(data, k + 1,
                 Xor32(Shr32(crc, 8), CrcTable(LowByte(Xor32(crc, Bits32(data[k]))))))

crc32(data) == Xor32(CrcLoop(data, 1, AllOnes32), AllOnes32)

\* the k-th byte (from 0) of a std::uint32_t
ByteOf(value, k) == LowByte(Shr32(value, 8 * k))

writeLE16(buffer, value) ==
    buffer \o << value % 256, (value \div 256) % 256 >>

writeLE32(buffer, value) ==
    buffer \o << ByteOf(value, 0), ByteOf(value, 1), ByteOf(value, 2), ByteOf(value, 3) >>

\* ZipBuilder::addFile: the entries after the call
addFile(entries, name, content) ==
    Append(entries,
           [name |-> name, content |-> content, crc |-> crc32(content),
            compressedSize |-> Bits32(Len(content)),
            uncompressedSize |-> Bits32(Len(content)),
            localHeaderOffset |-> Bits32(0)])

\* lines 283-295: one local file header followed by name and content
LocalRecord(entry) ==
    LET h1 == writeLE16(<<80, 75, 3, 4>>, 20)
        h2 == writeLE16(writeLE16(writeLE16(writeLE16(h1, 0), 0), 0), 0)
        h3 == writeLE32(writeLE32(writeLE32(h2, entry.crc), entry.compressedSize),
                        entry.uncompressedSize)
        h4 == writeLE16(writeLE16(h3, Len(entry.name)), 0)
    IN  h4 \o entry.name \o entry.content

\* lines 281-296: output and entries after the first loop, from entry k on
RECURSIVE LocalLoop(_, _, _)
LocalLoop(entries, k, output) ==
    IF k > Len(entries) THEN [output |-> output, entries |-> entries]
    ELSE LET entry == [entries[k] EXCEPT !.localHeaderOffset = Bits32(Len(output))]
         IN  LocalLoop([entries EXCEPT ![k] = entry], k + 1,
                       output \o LocalRecord(entry))

\* lines 299-316: one central directory record
CentralRecord(entry) ==
    LET h1 == writeLE16(writeLE16(<<80, 75, 1, 2>>, 20), 20)
        h2 == writeLE16(writeLE16(writeLE16(writeLE16(h1, 0), 0), 0), 0)
        h3 == writeLE32(writeLE32(writeLE32(h2, entry.crc), entry.compressedSize),
                        entry.uncompressedSize)
        h4 == writeLE16(h3, Len(entry.name))
        h5 == writeLE16(writeLE16(writeLE16(writeLE16(h4, 0), 0), 0), 0)
        h6 == writeLE32(writeLE32(h5, Bits32(0)), entry.localHeaderOffset)
    IN  h6 \o entry.name

\* lines 298-317: the central directory of entries k..end
RECURSIVE CentralLoop(_, _)
CentralLoop(entries, k) ==
    IF k > Len(entries) THEN <<>>
    ELSE CentralRecord(entries[k]) \o CentralLoop(entries, k + 1)

\* lines 322-329 with the two 32-bit fields written in the other order
EndRecordOffsetBeforeSize(count, centralSize, centralDirOffset) ==
    LET h1 == writeLE16(writeLE16(<<80, 75, 5, 6>>, 0), 0)
        h2 == writeLE16(writeLE16(h1, count % 65536), count % 65536)
        h3 == writeLE32(writeLE32(h2, Bits32(centralDirOffset)), Bits32(centralSize))
    IN  writeLE16(h3, 0)

\* lines 322-329: the end-of-central-directory record
EndRecord(count, centralSize, centralDirOffset) ==
    LET h1 == writeLE16(writeLE16(<<80, 75, 5, 6>>, 0), 0)
        h2 == writeLE16(writeLE16(h1, count % 65536), count % 65536)
        h3 == writeLE32(writeLE32(h2, Bits32(centralSize)), Bits32(centralDirOffset))
    IN  writeLE16(h3, 0)

\* lines 298-331, with every local header offset recorded as 0
finalizeFromLocalsZeroOffsets(locals) ==
    LET centralDirectory ==
            CentralLoop([k \in 1..Len(locals.entries) |->
                            [locals.entries[k] EXCEPT !.localHeaderOffset = Bits32(0)]], 1)
    IN  locals.output \o centralDirectory
            \o EndRecord(Len(locals.entries), Len(centralDirectory), Len(locals.output))

\* lines 298-331: the output once the first loop has left locals
finalizeFromLocals(locals) ==
    LET centralDirectory == CentralLoop(locals.entries, 1)
    IN  locals.output \o centralDirectory
            \o EndRecord(Len(locals.entries), Len(centralDirectory), Len(locals.output))

\* ZipBuilder::finalize
finalize(entries) == finalizeFromLocals(LocalLoop(entries, 1, <<>>))

----------------------------------------------------------------------------
(* WebServer: reading the form fields of a request body *)

HexDigits == "0123456789abcdef"

\* the value of one hexadecimal digit, -1 when c is none
HexVal(c) == Find(HexDigits, LowerChar(c)) - 1

\* the characters with codes 32..95 and 97..126, in code order
AsciiLow == " !\"#$%&'()*+,-./0123456789:;<=>?@ABCDEFGHIJKLMNOPQRSTUVWXYZ[\\]^_"

AsciiHigh == "abcdefghijklmnopqrstuvwxyz{|}~"

\* static_cast<char>(numeric); a code whose character cannot be written
\* here is kept apart from every character that can
CharOf(code) ==
    IF code \in 32..95 THEN CharAt(AsciiLow, code - 31)
    ELSE IF code \in 97..126 THEN CharAt(AsciiHigh, code - 96)
    ELSE IF code = 9 THEN "\t"
    ELSE IF code = 10 THEN "\n"
    ELSE IF code = 13 THEN "\r"
    ELSE "\f"

\* lines 1080-1100; strtol is taken on two hexadecimal digits
RECURSIVE decodeFormValue(_)
decodeFormValue(value) ==
    IF value = "" THEN ""
    ELSE IF /\ Head(value) = "%"
            /\ Len(value) >= 3
            /\ HexVal(CharAt(value, 2)) >= 0
            /\ HexVal(CharAt(value, 3)) >= 0
         THEN CharOf(16 * HexVal(CharAt(value, 2)) + HexVal(CharAt(value, 3)))
                  \o decodeFormValue(SubstrFrom(value, 4))
         ELSE IF Head(value) = "+" THEN " " \o decodeFormValue(Tail(value))
         ELSE Head(value) \o decodeFormValue(Tail(value))

\* the text between the first occurrence of needle and the next "&"
RawAfter(payload, needle) ==
    LET pos    == Find(payload, needle)
        start  == pos + Len(needle)
        endPos == FindFrom(payload, "&", start)
    IN  IF endPos = 0 THEN SubstrFrom(payload, start)
        ELSE SubSeq(payload, start, endPos - 1)

parseFormValue(payload, key) ==
    IF key = "" THEN ""
    ELSE IF Find(payload, key \o "=") = 0 THEN ""
    ELSE decodeFormValue(RawAfter(payload, key \o "="))

parseDirectory(payload) == parseFormValue(payload, "directory")

\* lines 1012-1023: the language key a lower-cased token names, "" when none
LanguageToken(lowerToken) ==
    IF lowerToken \in {"c", "ansi-c"} THEN "C"
    ELSE IF lowerToken \in {"cpp", "c++", "cxx"} THEN "C++"
    ELSE IF lowerToken \in {"c#", "csharp", "cs"} THEN "C#"
    ELSE IF lowerToken = "java" THEN "Java"
    ELSE IF lowerToken \in {"python", "py", "python3"} THEN "Python"
    ELSE ""

\* lines 1002-1028: the keys named from 1-based position start on
RECURSIVE LanguagesFrom(_, _)
LanguagesFrom(decoded, start) ==
    IF start > Len(decoded) THEN {}
    ELSE LET comma == FindFrom(decoded, ",", start)
             token == IF comma = 0 THEN SubstrFrom(decoded, start)
                      ELSE SubSeq(decoded, start, comma - 1)
             key   == IF token = "" THEN "" ELSE LanguageToken(toLowerCopy(token))
             here  == IF key = "" THEN {} ELSE {key}
         IN  IF comma = 0 THEN here
             ELSE here \cup LanguagesFrom(decoded, comma + 1)

parseLanguages(payload) ==
    IF Find(payload, "languages=") = 0 THEN {}
    ELSE LanguagesFrom(decodeFormValue(RawAfter(payload, "languages=")), 1)

\* parseFormat without the test that the value is a supported format
parseFormatAnyValue(payload) ==
    IF Find(payload, "format=") = 0 THEN "none"
    ELSE LET lower == toLowerCopy(decodeFormValue(RawAfter(payload, "format=")))
         IN  IF lower = "" \/ lower = "none" THEN "none" ELSE lower

parseFormat(payload) ==
    IF Find(payload, "format=") = 0 THEN "none"
    ELSE LET lower == toLowerCopy(decodeFormValue(RawAfter(payload, "format=")))
         IN  IF lower = "" \/ lower = "none" THEN "none"
             ELSE IF lower \in {"csv", "json", "xlsx"} THEN lower
             ELSE ""

parseBooleanFlag(payload, key) ==
    IF Find(payload, key \o "=") = 0 THEN FALSE
    ELSE toLowerCopy(decodeFormValue(RawAfter(payload, key \o "=")))
             \in {"1", "true", "on", "yes"}

----------------------------------------------------------------------------
(* WebServer: the CSV and JSON reports *)

\* the code of a character, as unsigned char
CodeOf(c) ==
    IF Find(AsciiLow, c) # 0 THEN 31 + Find(AsciiLow, c)
    ELSE IF Find(AsciiHigh, c) # 0 THEN 96 + Find(AsciiHigh, c)
    ELSE IF c = "\t" THEN 9
    ELSE IF c = "\n" THEN 10
    ELSE IF c = "\r" THEN 13
    ELSE 12

\* std::string operator<
RECURSIVE StringLess(_, _)
StringLess(a, b) ==
    IF b = "" THEN FALSE
    ELSE IF a = "" THEN TRUE
    ELSE IF CharAt(a, 1) = CharAt(b, 1) THEN StringLess(SubstrFrom(a, 2), SubstrFrom(b, 2))
    ELSE CodeOf(CharAt(a, 1)) < CodeOf(CharAt(b, 1))

\* operator<< of an unsigned or int value that is not negative
RECURSIVE ToDecimal(_)
ToDecimal(n) ==
    IF n < 10 THEN CharAt("0123456789", n + 1)
    ELSE ToDecimal(n \div 10) \o CharAt("0123456789", (n % 10) + 1)

\* operator<< of a double under std::fixed << std::setprecision(2): the
\* nearest hundredth, an exact tie going to the even one
FormatFixed2(r) ==
    LET twice == (200 * r.num) \div r.den
        exact == (200 * r.num) % r.den = 0
        down  == twice \div 2
        cents == IF twice % 2 = 0 THEN down
                 ELSE IF ~exact THEN down + 1
                 ELSE IF down % 2 = 0 THEN down ELSE down + 1
    IN  ToDecimal(cents \div 100) \o "." \o ToDecimal((cents % 100) \div 10)
            \o ToDecimal(cents % 10)

\* operator<< of a double in the default format (six significant digits,
\* trailing zeros dropped), for a multiple of one tenth below 100000
FormatDefault(r) ==
    LET tenths == (10 * r.num) \div r.den IN
    IF tenths % 10 = 0 THEN ToDecimal(tenths \div 10)
    ELSE ToDecimal(tenths \div 10) \o "." \o ToDecimal(tenths % 10)

\* lines 38-79: jsonEscape; a control character other than \n, \r, \t is
\* written here as the form feed
RECURSIVE jsonEscape(_)
jsonEscape(input) ==
    IF input = "" THEN ""
    ELSE LET ch == CharAt(input, 1) IN
         (IF ch = "\\" THEN "\\\\"
          ELSE IF ch = "\"" THEN "\\\""
          ELSE IF ch = "\f" THEN "\\f"
          ELSE IF ch = "\n" THEN "\\n"
          ELSE IF ch = "\r" THEN "\\r"
          ELSE IF ch = "\t" THEN "\\t"
          ELSE ch) \o jsonEscape(SubstrFrom(input, 2))

\* LanguageRow of one entry of languageSummaries
LanguageRow(name, summary) ==
    [name |-> name, files |-> summary.fileCount, lines |-> summary.lineCount,
     blankLines |-> summary.blankLineCount, commentLines |-> summary.commentLineCount,
     functionCount |-> summary.functions.functionCount,
     minFunctionLength |-> summary.functions.minLength,
     maxFunctionLength |-> summary.functions.maxLength,
     averageFunctionLength |-> summary.functions.averageLength,
     medianFunctionLength |-> summary.functions.medianLength]

\* the rows pushed while the unordered_map is iterated, in some order
RECURSIVE RowsOf(_, _)
RowsOf(summaries, keys) ==
    IF keys = {} THEN <<>>
    ELSE LET k == CHOOSE x \in keys : TRUE IN
         <<LanguageRow(k, summaries[k])>> \o RowsOf(summaries, keys \ {k})

\* lines 122-142 with the rows sorted by descending name
collectLanguageRowsDescending(res) ==
    SortSeq(RowsOf(res.languageSummaries, DOMAIN res.languageSummaries),
            LAMBDA a, b : StringLess(b.name, a.name))

\* lines 122-142
collectLanguageRows(res) ==
    SortSeq(RowsOf(res.languageSummaries, DOMAIN res.languageSummaries),
            LAMBDA a, b : StringLess(a.name, b.name))

\* the three bytes EF BB BF, none of them an ASCII character
Utf8Bom == "\f\f\f"

\* lines 1196-1212 with the blank-lines field written whatever the option is
CsvRowAlwaysBlank(row, res) ==
    "\"" \o row.name \o "\"" \o "," \o ToDecimal(row.files) \o "," \o ToDecimal(row.lines)
    \o "," \o ToDecimal(row.blankLines)
    \o (IF res.includeCommentLines THEN "," \o ToDecimal(row.commentLines) ELSE "")
    \o "," \o ToDecimal(row.functionCount)
    \o "," \o ToDecimal(row.minFunctionLength)
    \o "," \o ToDecimal(row.maxFunctionLength)
    \o "," \o FormatFixed2(row.averageFunctionLength)
    \o "," \o FormatFixed2(row.medianFunctionLength)
    \o "\n"

\* lines 1196-1212: one row of the CSV report
CsvRow(row, res) ==
    "\"" \o row.name \o "\"" \o "," \o ToDecimal(row.files) \o "," \o ToDecimal(row.lines)
    \o (IF res.includeBlankLines THEN "," \o ToDecimal(row.blankLines) ELSE "")
    \o (IF res.includeCommentLines THEN "," \o ToDecimal(row.commentLines) ELSE "")
    \o "," \o ToDecimal(row.functionCount)
    \o "," \o ToDecimal(row.minFunctionLength)
    \o "," \o ToDecimal(row.maxFunctionLength)
    \o "," \o FormatFixed2(row.averageFunctionLength)
    \o "," \o FormatFixed2(row.medianFunctionLength)
    \o "\n"

RECURSIVE CsvRowsText(_, _, _)
CsvRowsText(rows, i, res) ==
    IF i > Len(rows) THEN ""
    ELSE CsvRow(rows[i], res) \o CsvRowsText(rows, i + 1, res)

\* WebServer::buildCsvReport
buildCsvReport(res) ==
    Utf8Bom \o "Language,Files,Lines"
    \o (IF res.includeBlankLines THEN ",BlankLines" ELSE "")
    \o (IF res.includeCommentLines THEN ",CommentLines" ELSE "")
    \o ",Functions,MinFunctionLength,MaxFunctionLength,AverageFunctionLength,MedianFunctionLength\n"
    \o CsvRowsText(collectLanguageRows(res), 1, res)

\* lines 1221-1239: one object of the JSON report
JsonRow(row, res) ==
    "{\"language\":\"" \o jsonEscape(row.name) \o "\","
    \o "\"files\":" \o ToDecimal(row.files) \o ","
    \o "\"lines\":" \o ToDecimal(row.lines)
    \o (IF res.includeBlankLines
        THEN ",\"blankLines\":" \o ToDecimal(row.blankLines) ELSE "")
    \o (IF res.includeCommentLines
        THEN ",\"commentLines\":" \o ToDecimal(row.commentLines) ELSE "")
    \o ",\"functions\":{\"count\":" \o ToDecimal(row.functionCount) \o ","
    \o "\"min\":" \o ToDecimal(row.minFunctionLength) \o ","
    \o "\"max\":" \o ToDecimal(row.maxFunctionLength) \o ","
    \o "\"average\":" \o FormatDefault(row.averageFunctionLength) \o ","
    \o "\"median\":" \o FormatDefault(row.medianFunctionLength) \o "}"
    \o "}"

RECURSIVE JsonRowsText(_, _, _)
JsonRowsText(rows, i, res) ==
    IF i > Len(rows) THEN ""
    ELSE (IF i > 1 THEN "," ELSE "") \o JsonRow(rows[i], res)
             \o JsonRowsText(rows, i + 1, res)

\* WebServer::buildJsonReport
buildJsonReport(res) ==
    "{\"languages\":[" \o JsonRowsText(collectLanguageRows(res), 1, res) \o "]}"

----------------------------------------------------------------------------
(* WebServer: buildSheetXml::cellRef *)

\* static_cast<char>('A' + n) for n in 0..25
LetterOf(n) == CharAt("ABCDEFGHIJKLMNOPQRSTUVWXYZ", n + 1)

\* one pass of the while loop of lines 150-153 taking 26 for the next c
\* without the - 1
CellRefPassPlainBase26(st) ==
    [st EXCEPT !.ref = LetterOf(st.c % 26) \o @,
               !.c = IF st.c < 26 THEN -1 ELSE st.c \div 26]

\* lines 150-153: one pass of the while loop on the locals ref and c
CellRefPass(st) ==
    [st EXCEPT !.ref = LetterOf(st.c % 26) \o @,
               !.c = (st.c \div 26) - 1]

----------------------------------------------------------------------------
(* Inputs *)

\* the root argument of analyze()
Roots ==
    { "", ".", "sub", "src", "lib", "stats", "priv", "cyc", "w/sub",
      "../../etc", "/etc", "../wE", "out", "out/../w/sub", "sub/../../wE",
      "missing", "missing/../../etc", "missing/../sub", "../loop", "a.py",
      "priv/locked", "priv/locked/x", ".git", "lib/node_modules/d" }

LanguageSets == { {}, {"Python"}, {"C", "Java"}, {"C++", "C#", "Go"} }

OptionSets ==
    [languages : LanguageSets, includeBlankLines : BOOLEAN,
     includeCommentLines : BOOLEAN]

\* CodeStatsOptions{}
DefaultOptions ==
    [languages |-> {}, includeBlankLines |-> FALSE, includeCommentLines |-> FALSE]

\* bodies of POST /codestats/export
Bodies ==
    { "directory=stats&languages=python&includeBlank=1&includeComments=true&format=csv",
      "directory=src&languages=C%2B%2B,c&includeBlank=yes&format=JSON",
      "directory=lib&languages=java,cs,rust&includeComments=on&format=xlsx",
      "format=c%73v",
      "directory=sub&format=pdf",
      "directory=sub&format=",
      "directory=sub&format=none",
      "directory=sub&format=None&languages=c",
      "directory=sub",
      "directory=stats&format=csv+",
      "directory=lib&format=xls",
      "directory=..%2F..%2Fetc&format=csv",
      "directory=..%2FwE&format=json",
      "directory=missing&format=csv",
      "directory=priv&format=xlsx",
      "directory=priv%2Flocked%2Fx&format=csv" }

----------------------------------------------------------------------------
(* CodeStatsAnalyzer::analyze *)

\* what lines 205-238 leave: the two flags of the result, ec, whether
\* analyze returns there, and canonicalRequested
Guard(within, exists, error, returns, path) ==
    [withinWorkspace |-> within, directoryExists |-> exists, ec |-> error,
     returns |-> returns, path |-> path]

\* lines 205-238 with the return of line 237 missing
PathGuardFallsThrough(r) ==
    LET workspace == weakly_canonical(current_path)
        input     == IF r = "" THEN "." ELSE r
        requested == workspace.path \o relative_path(input)
        canonicalRequested == weakly_canonical(requested)
    IN  IF workspace.ec THEN Guard(FALSE, FALSE, TRUE, TRUE, <<>>)
        ELSE IF canonicalRequested.ec THEN Guard(TRUE, FALSE, TRUE, TRUE, <<>>)
        ELSE IF ~isSubDir(PathStr(workspace.path), PathStr(canonicalRequested.path))
             THEN Guard(FALSE, TRUE, FALSE, FALSE, canonicalRequested.path)
        ELSE Guard(TRUE, TRUE, FALSE, FALSE, canonicalRequested.path)

\* lines 205-238
PathGuard(r) ==
    LET workspace == weakly_canonical(current_path)
        input     == IF r = "" THEN "." ELSE r
        requested == workspace.path \o relative_path(input)
        canonicalRequested == weakly_canonical(requested)
    IN  IF workspace.ec THEN Guard(FALSE, FALSE, TRUE, TRUE, <<>>)
        ELSE IF canonicalRequested.ec THEN Guard(TRUE, FALSE, TRUE, TRUE, <<>>)
        ELSE IF ~isSubDir(PathStr(workspace.path), PathStr(canonicalRequested.path))
             THEN Guard(FALSE, TRUE, FALSE, TRUE, canonicalRequested.path)
        ELSE Guard(TRUE, TRUE, FALSE, FALSE, canonicalRequested.path)

\* lines 201-241: from the call to the first test of the walk loop
AnalyzeBegin(r, o) ==
    \E guard \in {PathGuard(r)} :
    /\ root' = r
    /\ options' = o
    /\ visited' = <<>>
    /\ walked' = TRUE
    /\ result' = [EmptyResult EXCEPT
                    !.includeBlankLines = o.includeBlankLines,
                    !.includeCommentLines = o.includeCommentLines,
                    !.withinWorkspace = guard.withinWorkspace,
                    !.directoryExists = guard.directoryExists]
    /\ IF guard.returns
       THEN /\ ec' = guard.ec
            /\ it' = EndIterator
            /\ pc' = "returned"
       ELSE /\ pc' = "walk"
            /\ IF CanList(guard.path)
               THEN /\ ec' = FALSE
                    /\ it' \in Advance(<<Children(guard.path)>>)
               ELSE /\ ec' = TRUE
                    /\ it' = EndIterator

\* a caller inside the process: CodeStatsFacade::analyzeAll(root, options)
DirectCall ==
    /\ pc = "idle"
    /\ \E r \in Roots, o \in OptionSets :
          /\ caller' = "direct"
          /\ AnalyzeBegin(r, o)
    /\ UNCHANGED <<world, body, format, response, callVars>>

\* lines 243-259: one pass of the walk loop
WalkEntry ==
    /\ pc = "walk"
    /\ ~it.end
    /\ IF ec
       THEN /\ pc' = "finalize"
            /\ UNCHANGED <<result, visited, it, ec>>
       ELSE LET type == EntryType(it.cur)
                seen == [it EXCEPT !.pending =
                            IF type = "dir" /\ isDirectoryExcluded(it.cur)
                            THEN FALSE ELSE @]
            IN  IF type = "error"
                THEN /\ pc' = "thrown"
                     /\ UNCHANGED <<result, visited, it, ec>>
                ELSE /\ IF type = "file"
                        THEN /\ result' = visitFile(it.cur, result, options)
                             /\ visited' = Append(visited, it.cur)
                        ELSE UNCHANGED <<result, visited>>
                     /\ ec' = FALSE
                     /\ IF IncrementThrows(seen)
                        THEN /\ pc' = "thrown"
                             /\ it' = seen
                        ELSE /\ pc' = "walk"
                             /\ it' \in Increment(seen)
    /\ UNCHANGED <<world, caller, body, format, root, options, walked, response,
                   callVars>>

\* lines 261-287, entered when the loop ends
Finalize ==
    /\ \/ pc = "walk" /\ it.end
       \/ pc = "finalize"
    /\ result' = [result EXCEPT !.languageSummaries = FinalizeAll(@)]
    /\ pc' = "insert"
    /\ UNCHANGED <<world, caller, body, format, root, options, ec, it, visited,
                   walked, response, callVars>>

\* lines 289-296
Return ==
    /\ pc = "insert"
    /\ result' = ForceInsert(result, options)
    /\ pc' = "returned"
    /\ UNCHANGED <<world, caller, body, format, root, options, ec, it, visited,
                   walked, response, callVars>>

----------------------------------------------------------------------------
(* WebServer::handleClient, POST /codestats/export *)

\* lines 545-558: the request is read and analyzeAll is entered, or the
\* request is answered 400
ExportRequest ==
    /\ pc = "idle"
    /\ \E b \in Bodies :
       \E directory \in {parseDirectory(b)}, fmt \in {parseFormat(b)} :
       \E targetDir \in {IF directory = "" THEN "." ELSE directory} :
       \E opts \in {[languages |-> parseLanguages(b),
                     includeBlankLines |-> parseBooleanFlag(b, "includeBlank"),
                     includeCommentLines |-> parseBooleanFlag(b, "includeComments")]} :
          /\ caller' = "export"
          /\ body' = b
          /\ format' = fmt
          /\ IF fmt = "" \/ fmt = "none"
             THEN /\ response' = 400
                  /\ pc' = "done"
                  /\ UNCHANGED <<root, options, result, ec, it, visited, walked>>
             ELSE /\ AnalyzeBegin(targetDir, opts)
                  /\ UNCHANGED response
    /\ UNCHANGED <<world, callVars>>

\* lines 559-603 and 621-625: the answer once analyzeAll has returned or thrown
ExportRespond ==
    /\ caller = "export"
    /\ pc \in {"returned", "thrown"}
    /\ response' = IF pc = "thrown" THEN 500
                   ELSE IF ~result.withinWorkspace THEN 403
                   ELSE IF ~result.directoryExists THEN 404
                   ELSE IF format \in {"csv", "json", "xlsx"} THEN 200
                   ELSE 400
    /\ pc' = "done"
    /\ UNCHANGED <<world, caller, body, format, root, options, result, ec, it,
                   visited, walked, callVars>>

----------------------------------------------------------------------------

Init ==
    /\ world \in WorldNames
    /\ caller = "none"
    /\ body = ""
    /\ format = ""
    /\ root = ""
    /\ options = DefaultOptions
    /\ pc = "idle"
    /\ result = EmptyResult
    /\ ec = FALSE
    /\ it = EndIterator
    /\ visited = <<>>
    /\ walked = FALSE
    /\ response = 0
    /\ op = "none"
    /\ arg = <<>>
    /\ ret = <<>>

Next ==
    \/ DirectCall
    \/ ExportRequest
    \/ WalkEntry
    \/ Finalize
    \/ Return
    \/ ExportRespond

Spec == Init /\ [][Next]_vars

----------------------------------------------------------------------------
(* Finalisation applied to a list of lengths on its own *)

\* lengths a function can have, and the most functions one language has
LengthPool == {1, 2, 3, 5, 9, 11}
MaxFns == 4

RECURSIVE SeqsUpTo(_, _)
SeqsUpTo(S, n) ==
    IF n = 0 THEN {<<>>}
    ELSE LET shorter == SeqsUpTo(S, n - 1) IN
         shorter \cup { Append(q, x) : q \in { t \in shorter : Len(t) = n - 1 }, x \in S }

IdleRequest ==
    /\ world = "guard"
    /\ caller = "none"
    /\ body = ""
    /\ format = ""
    /\ root = ""
    /\ options = DefaultOptions
    /\ pc = "idle"
    /\ result = EmptyResult
    /\ ec = FALSE
    /\ it = EndIterator
    /\ visited = <<>>
    /\ walked = FALSE
    /\ response = 0

FinalizeInit ==
    /\ IdleRequest
    /\ op = "none"
    /\ arg \in SeqsUpTo(LengthPool, MaxFns)
    /\ ret = <<>>

\* the loop body of lines 262-286 on a summary holding the lengths arg
ApplyFinalize ==
    /\ op = "none"
    /\ op' = "finalize"
    /\ ret' = FinalizeFunctions([EmptyFunctions EXCEPT !.lengths = arg])
    /\ UNCHANGED <<requestVars, arg>>

FinalizeNext == ApplyFinalize

SpecFinalize == FinalizeInit /\ [][FinalizeNext]_vars

----------------------------------------------------------------------------
(* Definitions the properties are stated with *)

\* path p is directory d or lies beneath it, component by component
Beneath(d, p) == Len(p) >= Len(d) /\ SubSeq(p, 1, Len(d)) = d

\* the canonical working directory and the canonical requested root
CanonicalWorkspace == weakly_canonical(current_path)

CanonicalRoot ==
    weakly_canonical(CanonicalWorkspace.path
                        \o relative_path(IF root = "" THEN "." ELSE root))

\* both canonical paths exist
CanonicalKnown == ~CanonicalWorkspace.ec /\ ~CanonicalRoot.ec

\* analyze() has returned to its caller
Returned == walked /\ pc \in {"returned", "done"} /\ response # 500

ExcludedNames == {".git", "bin", "logs", "node_modules"}

\* the directories strictly between top and path p
DirsBetween(top, p) == { SubSeq(p, 1, k) : k \in (Len(top) + 1)..(Len(p) - 1) }

\* the regular files the walk from top has to reach: every directory on
\* the way is a real directory that is not excluded
ReachableFiles(top) ==
    { f \in DOMAIN FS :
        /\ Beneath(top, f) /\ f # top
        /\ EntryType(f) = "file"
        /\ \A d \in DirsBetween(top, f) :
              FS[d].kind = "dir" /\ filename(d) \notin ExcludedNames }

Range(seq) == { seq[i] : i \in 1..Len(seq) }

RECURSIVE SumOver(_, _)
SumOver(f, keys) ==
    IF keys = {} THEN 0
    ELSE LET k == CHOOSE x \in keys : TRUE IN f[k].lineCount + SumOver(f, keys \ {k})

\* a <= b for two quotients with positive denominators
RatLeq(a, b) == a.num * b.den <= b.num * a.den

\* the k-th smallest element of a sequence, by counting
KthSmallest(seq, k) ==
    CHOOSE v \in Range(seq) :
        /\ Cardinality({ i \in 1..Len(seq) : seq[i] < v }) < k
        /\ Cardinality({ i \in 1..Len(seq) : seq[i] <= v }) >= k

\* twice the median of a non-empty sequence
TwiceMedian(seq) ==
    IF Len(seq) % 2 = 1 THEN 2 * KthSmallest(seq, (Len(seq) + 1) \div 2)
    ELSE KthSmallest(seq, Len(seq) \div 2) + KthSmallest(seq, Len(seq) \div 2 + 1)

\* the format field of an export body names none of csv, json, xlsx
UnsupportedFormat(b) ==
    \/ Find(b, "format=") = 0
    \/ toLowerCopy(decodeFormValue(RawAfter(b, "format=")))
           \notin {"csv", "json", "xlsx"}

----------------------------------------------------------------------------
(* C1 *)

\* C1: in every state of an analysis -- after each visitFile step and when
\* analyze has returned -- result.totalLines is the sum of lineCount over
\* the entries of result.languageSummaries.
C1_TotalLinesIsSum ==
    result.totalLines =
        SumOver(result.languageSummaries, DOMAIN result.languageSummaries)

C1_Witness ==
    /\ pc = "returned"
    /\ Cardinality(DOMAIN result.languageSummaries) >= 3
    /\ result.totalLines = 17

(* C2 *)

\* C2: when the canonical requested root is neither the canonical workspace
\* nor beneath it, analyze returns at once with withinWorkspace = false and
\* no file is ever handed to visitFile.
C2_OutsideRejected ==
    (walked /\ CanonicalKnown
        /\ ~Beneath(CanonicalWorkspace.path, CanonicalRoot.path))
    => /\ pc \in {"returned", "done"}
       /\ ~result.withinWorkspace
       /\ visited = <<>>

C2_Witness ==
    /\ pc = "returned"
    /\ root = "../wE"
    /\ CanonicalRoot.path = <<"wE">>
    /\ ~result.withinWorkspace

(* C3 *)

\* C3: when analyze returns withinWorkspace = false or directoryExists =
\* false, the three totals are 0, no summary holds counted data and
\* visitFile was never called.
C3_ShortCircuitIsEmpty ==
    (Returned /\ (~result.withinWorkspace \/ ~result.directoryExists))
    => /\ result.totalLines = 0
       /\ result.totalBlankLines = 0
       /\ result.totalCommentLines = 0
       /\ \A k \in DOMAIN result.languageSummaries :
             result.languageSummaries[k] = EmptySummary
       /\ visited = <<>>
       /\ it = EndIterator

C3_Witness ==
    /\ pc = "returned"
    /\ root = "out"
    /\ ~result.withinWorkspace
    /\ options.languages = {"Python"}

(* C4 *)

\* the requested root, inside the workspace, does not exist or is a
\* directory that cannot be opened
RootMissingOrInaccessible ==
    /\ CanonicalKnown
    /\ Beneath(CanonicalWorkspace.path, CanonicalRoot.path)
    /\ \/ Status(CanonicalRoot.path).st = "missing"
       \/ /\ Status(CanonicalRoot.path).st = "ok"
          /\ FS[CanonicalRoot.path].kind = "dir"
          /\ ~FS[CanonicalRoot.path].perm

\* C4: when the requested root is a missing or inaccessible directory inside
\* the workspace, analyze returns directoryExists = false.
C4_MissingReported ==
    (Returned /\ RootMissingOrInaccessible) => ~result.directoryExists

(* C5 *)

\* C5: an error on one directory entry neither throws out of analyze nor
\* aborts the walk: analyze returns, and every regular file of the readable
\* rest of the tree has been visited by then.
C5_EntryErrorSkipped ==
    /\ pc # "thrown"
    /\ (pc = "returned" /\ result.withinWorkspace /\ result.directoryExists)
       => ReachableFiles(CanonicalRoot.path) \subseteq Range(visited)

(* C6 *)

\* C6: no file beneath a directory named .git, bin, logs or node_modules
\* that lies below the analysis root is handed to visitFile, and when
\* analyze returns every regular file reached through directories that are
\* not excluded has been visited.
C6_ExcludedPruned ==
    /\ \A i \in 1..Len(visited) :
          \A d \in DirsBetween(CanonicalRoot.path, visited[i]) :
              filename(d) \notin ExcludedNames
    /\ (pc = "returned" /\ result.withinWorkspace /\ result.directoryExists)
       => ReachableFiles(CanonicalRoot.path) \subseteq Range(visited)

C6_Witness ==
    /\ pc = "returned"
    /\ world = "tree"
    /\ root = ""
    /\ Range(visited) =
          { <<"w", "src", "m.c">>, <<"w", "src", "u.cpp">>, <<"w", "lib", "J.java">> }

(* C7 *)

\* C7: an export request whose format is missing, empty, "none" or none of
\* csv, json, xlsx (compared without regard to case) is answered 400 by the
\* step that reads it: analyzeAll is never entered for it and no file is
\* visited.
C7_BadFormatNeverWalks ==
    (caller = "export" /\ UnsupportedFormat(body))
    => /\ ~walked
       /\ visited = <<>>
       /\ pc = "done"
       /\ response = 400

C7_Witness ==
    /\ caller = "export"
    /\ body = "directory=sub&format=pdf"
    /\ response = 400
    /\ ~walked

(* C8 *)

\* C8: when analyze has returned, every language with at least one
\* recorded function has minLength <= medianLength <= maxLength and
\* minLength <= averageLength <= maxLength.
C8_StatsOrdered ==
    pc = "returned" =>
        \A k \in DOMAIN result.languageSummaries :
            LET fn == result.languageSummaries[k].functions IN
            Len(fn.lengths) >= 1 =>
                /\ RatLeq(Rat(fn.minLength, 1), fn.medianLength)
                /\ RatLeq(fn.medianLength, Rat(fn.maxLength, 1))
                /\ RatLeq(Rat(fn.minLength, 1), fn.averageLength)
                /\ RatLeq(fn.averageLength, Rat(fn.maxLength, 1))

C8_Witness ==
    /\ pc = "returned"
    /\ "Python" \in DOMAIN result.languageSummaries
    /\ result.languageSummaries["Python"].functions.minLength = 1
    /\ result.languageSummaries["Python"].functions.maxLength = 5
    /\ result.languageSummaries["Python"].functions.medianLength = Rat(3, 1)

(* C9 *)

\* C9: finalisation of any list of lengths, in any order, sets
\* functionCount to their number, minLength and maxLength to the smallest
\* and the largest, and medianLength to the middle one of the ascending
\* lengths (odd count) or the mean of the two middle ones (even count):
\* 5 for 3,5,9 and 7 for 3,5,9,11; with no length all statistics are zero.
C9_FinalizeLaw ==
    op = "finalize" =>
        /\ ret.functionCount = Len(arg)
        /\ arg = <<>> =>
              /\ ret.minLength = 0 /\ ret.maxLength = 0
              /\ ret.averageLength = Rat(0, 1) /\ ret.medianLength = Rat(0, 1)
        /\ arg # <<>> =>
              /\ \A x \in Range(arg) : ret.minLength <= x /\ x <= ret.maxLength
              /\ ret.minLength \in Range(arg) /\ ret.maxLength \in Range(arg)
              /\ 2 * ret.medianLength.num = TwiceMedian(arg) * ret.medianLength.den
        /\ Range(arg) = {3, 5, 9} /\ Len(arg) = 3
              => ret.medianLength.num = 5 * ret.medianLength.den
        /\ Range(arg) = {3, 5, 9, 11} /\ Len(arg) = 4
              => ret.medianLength.num = 7 * ret.medianLength.den

C9_Witness ==
    /\ op = "finalize"
    /\ arg = <<11, 3, 9, 5>>
    /\ ret.medianLength = Rat(14, 2)
    /\ ret.minLength = 3
    /\ ret.maxLength = 11

(* C10 *)

\* the requested language keys are all present in the result, each with an
\* all-zero summary when no visited file is of that language
RequestedKeysPresent ==
    \A l \in options.languages :
        /\ l \in DOMAIN result.languageSummaries
        /\ (\A i \in 1..Len(visited) : LanguageOf(visited[i]) # l)
              => result.languageSummaries[l] = EmptySummary

\* C10 as stated: whenever options.languages is non-empty, every requested
\* key is present in result.languageSummaries when analyze returns.
C10_AlwaysInserted ==
    (pc = "returned" /\ options.languages # {}) => RequestedKeysPresent

\* C10 as amended: whenever options.languages is non-empty and analyze
\* returns with withinWorkspace and directoryExists both true, every
\* requested key is present, with an all-zero summary when no file of that
\* language matched.
C10_InsertedUnlessShortCircuit ==
    (pc = "returned" /\ options.languages # {}
        /\ result.withinWorkspace /\ result.directoryExists)
    => RequestedKeysPresent

C10_Witness ==
    /\ pc = "returned"
    /\ options.languages = {"C++", "C#", "Go"}
    /\ Len(visited) >= 1
    /\ "C++" \in DOMAIN result.languageSummaries
    /\ result.languageSummaries["C++"].fileCount = 1
    /\ "Go" \in DOMAIN result.languageSummaries
    /\ result.languageSummaries["Go"] = EmptySummary

----------------------------------------------------------------------------
(* C11 *)

\* the visited files counted for language key k under the options in force
CountedFiles(k) ==
    { i \in 1..Len(visited) :
        /\ LanguageOf(visited[i]) = k
        /\ (options.languages = {} \/ k \in options.languages) }

\* the logical lines of the counted files of language k, counted with both
\* opt-in flags off
RECURSIVE LogicalSum(_, _)
LogicalSum(k, idx) ==
    IF idx = {} THEN 0
    ELSE LET i == CHOOSE x \in idx : TRUE IN
         computeLineMetrics(visited[i], k, FALSE, FALSE).logical
             + LogicalSum(k, idx \ {i})

AllLanguages == {"C", "C++", "C#", "Java", "Python"}

\* C11: when analyze has returned, the logical lines of a file do not depend on includeBlankLines and
\* includeCommentLines, every language's lineCount (and so totalLines) is
\* the sum of the logical lines of its counted files whatever the two flags
\* are, blankLineCount is 0 when includeBlankLines is false and
\* commentLineCount is 0 when includeCommentLines is false.
C11_LogicalUnconditional ==
    pc = "returned" =>
    /\ \A i \in 1..Len(visited) : \A b \in BOOLEAN, c \in BOOLEAN :
          computeLineMetrics(visited[i], LanguageOf(visited[i]), b, c).logical
            = computeLineMetrics(visited[i], LanguageOf(visited[i]), FALSE, FALSE).logical
    /\ \A k \in DOMAIN result.languageSummaries :
          /\ result.languageSummaries[k].lineCount = LogicalSum(k, CountedFiles(k))
          /\ ~options.includeBlankLines => result.languageSummaries[k].blankLineCount = 0
          /\ ~options.includeCommentLines => result.languageSummaries[k].commentLineCount = 0
    /\ ~options.includeBlankLines => result.totalBlankLines = 0
    /\ ~options.includeCommentLines => result.totalCommentLines = 0

C11_Witness ==
    /\ pc = "returned"
    /\ options.includeBlankLines /\ options.includeCommentLines
    /\ result.totalBlankLines > 0 /\ result.totalCommentLines > 0
    /\ result.totalLines = 17

----------------------------------------------------------------------------
(* The Python extractor applied to the lines of one file *)

\* the lines a Python file is made of, and the most lines it has
PyLinePool ==
    { "def f():", "    def g():", "    x = 1", "x = 1", "", "# c", "    " }
MaxPyLines == 5

PyExample == << "def f():", "    x = 1", "    y = 2", "def g():", "    pass" >>

PythonInit ==
    /\ IdleRequest
    /\ op = "none"
    /\ arg \in SeqsUpTo(PyLinePool, MaxPyLines) \cup {PyExample}
    /\ ret = <<>>

\* lines 368-409 on a file whose lines are arg
ApplyPython ==
    /\ op = "none"
    /\ op' = "python"
    /\ ret' = PythonLoop(arg, 1, <<"w", "m.py">>)
    /\ UNCHANGED <<requestVars, arg>>

PythonNext == ApplyPython

SpecPython == PythonInit /\ [][PythonNext]_vars

(* C12 *)

\* a line of white space only
IsBlankLine(l) == \A i \in 1..Len(l) : CharAt(l, i) \in SpaceChars

\* the number of spaces a line begins with
IndentOf(l) == Min({ i \in 1..Len(l) : CharAt(l, i) # " " } \cup {Len(l) + 1}) - 1

\* the first non-blank text of a line begins with prefix
TextStartsWith(l, prefix) ==
    \E i \in 1..Len(l) :
        /\ \A h \in 1..(i - 1) : CharAt(l, h) \in SpaceChars
        /\ CharAt(l, i) \notin SpaceChars
        /\ i + Len(prefix) - 1 <= Len(l)
        /\ SubSeq(l, i, i + Len(prefix) - 1) = prefix

\* the lines of a file that open a function
DefLines(lines) == { i \in 1..Len(lines) : TextStartsWith(lines[i], "def ") }

\* the first line after i that ends the body of the function opened at i:
\* non-blank, indented no deeper than line i, and not a comment
BodyEnd(lines, i) ==
    Min({ j \in (i + 1)..Len(lines) :
            /\ ~IsBlankLine(lines[j])
            /\ IndentOf(lines[j]) <= IndentOf(lines[i])
            /\ ~TextStartsWith(lines[j], "#") }
        \cup {Len(lines) + 1})

\* 1 plus the non-blank lines between line i and the end of its body
SpecLength(lines, i) ==
    1 + Cardinality({ j \in (i + 1)..(BodyEnd(lines, i) - 1) : ~IsBlankLine(lines[j]) })

\* C12: the Python extractor records one function for every line whose
\* trimmed text begins with "def ", in line order, with length 1 plus the
\* non-blank lines that follow up to, exclusively, the first non-blank line
\* indented no deeper whose text does not start with "#"; the five-line
\* example yields f with length 3 and g with length 2.
C12_PythonLength ==
    op = "python" =>
        /\ Len(ret) = Cardinality(DefLines(arg))
        /\ \A n \in 1..Len(ret) :
              /\ ret[n].lineNumber \in DefLines(arg)
              /\ Cardinality({ i \in DefLines(arg) : i <= ret[n].lineNumber }) = n
              /\ ret[n].length = SpecLength(arg, ret[n].lineNumber)
        /\ arg = PyExample =>
              /\ Len(ret) = 2
              /\ ret[1].name = "f" /\ ret[1].length = 3
              /\ ret[2].name = "g" /\ ret[2].length = 2

C12_Witness ==
    /\ op = "python"
    /\ arg = << "def f():", "", "    x = 1", "# c", "x = 1" >>
    /\ Len(ret) = 1
    /\ ret[1].length = 3

----------------------------------------------------------------------------
(* The brace extractor applied to the lines of one file *)

\* the lines a C file is made of, and the most lines it has
BraceLinePool ==
    { "int add(int a, int b) {", "    return a + b;", "}", "int f() { return 1; }",
      "", "    if (a) {", "int g()", "{", "    // note" }
MaxBraceLines == 4

AddExample == << "int add(int a, int b) {", "    return a + b;", "}" >>

\* a forward declaration followed by a definition
ForwardDeclExample == << "int foo(int);", "int bar() {", "    return 1;", "}" >>

\* operator overloads, the second behind a return type that is a struct
OperatorExample ==
    << "T operator+(T a) {", "}", "struct T operator-(T a) {", "    return a;", "}" >>

\* one block head for each keyword of isControlKeyword
KeywordExample ==
    << "if (a) {", "for (;;) {", "While (a) {", "switch (a) {", "catch (e) {",
       "return (a) {", "else (a) {", "class A (a) {", "struct S (a) {",
       "enum E (a) {", "case (a) {", "default (a) {", "using (a) {",
       "TYPEDEF (a) {" >>

BraceInput ==
    SeqsUpTo(BraceLinePool, MaxBraceLines)
        \cup {AddExample, ForwardDeclExample, OperatorExample, KeywordExample}

BraceSpecInit ==
    /\ IdleRequest
    /\ op = "none"
    /\ arg \in BraceInput
    /\ ret = <<>>

\* lines 426-519 on a C file whose lines are arg: the locals when the loop
\* ends, out being the records appended to the summary
ApplyBrace ==
    /\ op = "none"
    /\ op' = "brace"
    /\ ret' = BraceLoop(arg, 1, BraceInit, "C", <<"w", "m.c">>)
    /\ UNCHANGED <<requestVars, arg>>

BraceNext == ApplyBrace

SpecBrace == BraceSpecInit /\ [][BraceNext]_vars

(* C13 *)

\* C13 as stated: the three lines "int add(int a, int b) {",
\* "    return a + b;", "}" yield exactly one record, named add, with
\* length 2.
C13_AddHasLengthTwo ==
    (op = "brace" /\ arg = AddExample)
    => /\ Len(ret.out) = 1
       /\ ret.out[1].name = "add"
       /\ ret.out[1].length = 2

\* C13 as amended: the three lines yield exactly one record, named add,
\* starting at line 1, with length 3: the signature line, the return line
\* and the line of the closing brace.
C13_AddHasLengthThree ==
    (op = "brace" /\ arg = AddExample)
    => /\ Len(ret.out) = 1
       /\ ret.out[1].name = "add"
       /\ ret.out[1].lineNumber = 1
       /\ ret.out[1].length = 3

C13_Witness ==
    /\ op = "brace"
    /\ arg = AddExample
    /\ Len(ret.out) = 1
    /\ ret.out[1].name = "add"
    /\ ~ret.insideFunction

(* C14 *)

\* C14: when the end of the file is reached inside a function body
\* (braceDepth > 0), no record exists for that function, and the records are
\* exactly those of the lines before its signature: the functions closed
\* earlier in the file.
C14_OpenBodyDropped ==
    (op = "brace" /\ ret.insideFunction)
    => /\ ret.braceDepth > 0
       /\ ret.functionStartLine \in 1..Len(arg)
       /\ \A n \in 1..Len(ret.out) : ret.out[n].lineNumber < ret.functionStartLine
       /\ ret.out = BraceLoop(SubSeq(arg, 1, ret.functionStartLine - 1), 1,
                              BraceInit, "C", <<"w", "m.c">>).out

C14_Witness ==
    /\ op = "brace"
    /\ arg = << "int f() { return 1; }", "int add(int a, int b) {", "    return a + b;" >>
    /\ ret.insideFunction
    /\ Len(ret.out) = 1
    /\ ret.out[1].name = "f"

----------------------------------------------------------------------------
(* ZipBuilder driven as buildXlsxReport drives it: parts added, then
   finalize *)

\* the parts added, name and content, and the most parts one archive has
PartPool ==
    { [name |-> <<97>>,               content |-> <<>>],
      [name |-> <<120, 108, 47, 98>>, content |-> <<60, 97, 62>>],
      [name |-> <<98>>,               content |-> <<80, 75, 5, 6, 0>>] }
MaxParts == 5

ZipInit ==
    /\ IdleRequest
    /\ op = "zipbuilder"
    /\ arg = <<>>
    /\ ret = <<>>

\* builder.addFile(name, content)
ZipAddFile ==
    /\ op = "zipbuilder"
    /\ Len(arg) < MaxParts
    /\ \E part \in PartPool : arg' = addFile(arg, part.name, part.content)
    /\ UNCHANGED <<requestVars, op, ret>>

\* builder.finalize()
ZipFinalize ==
    /\ op = "zipbuilder"
    /\ op' = "zipped"
    /\ ret' = finalize(arg)
    /\ UNCHANGED <<requestVars, arg>>

ZipNext == ZipAddFile \/ ZipFinalize

SpecZip == ZipInit /\ [][ZipNext]_vars

(* C15 *)

\* reading an archive z back; positions count from 0
U16At(z, p) == z[p + 1] + 256 * z[p + 2]

U32At(z, p) ==
    IF z[p + 4] >= 128 THEN -1
    ELSE z[p + 1] + 256 * z[p + 2] + 65536 * z[p + 3] + 16777216 * z[p + 4]

BytesAt(z, p, n) == SubSeq(z, p + 1, p + n)

\* the end-of-central-directory record: the last 22 bytes
EocdPos(z) == Len(z) - 22

\* the position of the k-th central directory record, each found from the
\* lengths the one before records
RECURSIVE CdPos(_, _)
CdPos(z, k) ==
    IF k = 1 THEN U32At(z, EocdPos(z) + 16)
    ELSE LET prev == CdPos(z, k - 1) IN
         prev + 46 + U16At(z, prev + 28) + U16At(z, prev + 30) + U16At(z, prev + 32)

\* the bytes of entry k, taken at the recorded local header offset with the
\* recorded name length and size
ExtractedAt(z, cd) ==
    BytesAt(z, U32At(z, cd + 42) + 30 + U16At(z, cd + 28), U32At(z, cd + 24))

CrcBytes(v) == << ByteOf(v, 0), ByteOf(v, 1), ByteOf(v, 2), ByteOf(v, 3) >>

\* C15: the archive finalize produces ends with an end-of-central-directory
\* record that reports as many entries as parts were added (5 for the
\* XLSX); the central directory holds that many records, one per part in
\* order, and ends where that record begins; the bytes found at each
\* recorded local header offset, after the header and the name, are the
\* part's content, and their CRC-32 is the recorded one.
C15_ZipRoundTrip ==
    op = "zipped" =>
        LET z == ret
            e == EocdPos(ret)
        IN  /\ e >= 0
            /\ BytesAt(z, e, 4) = <<80, 75, 5, 6>>
            /\ U16At(z, e + 8) = Len(arg)
            /\ U16At(z, e + 10) = Len(arg)
            /\ U32At(z, e + 12) = e - U32At(z, e + 16)
            /\ CdPos(z, Len(arg) + 1) = e
            /\ \A k \in 1..Len(arg) :
                  LET cd == CdPos(z, k) IN
                  /\ BytesAt(z, cd, 4) = <<80, 75, 1, 2>>
                  /\ BytesAt(z, cd + 46, U16At(z, cd + 28)) = arg[k].name
                  /\ BytesAt(z, U32At(z, cd + 42), 4) = <<80, 75, 3, 4>>
                  /\ ExtractedAt(z, cd) = arg[k].content
                  /\ CrcBytes(crc32(ExtractedAt(z, cd))) = BytesAt(z, cd + 16, 4)

C15_Witness ==
    /\ op = "zipped"
    /\ Len(arg) = 5
    /\ U16At(ret, EocdPos(ret) + 10) = 5
    /\ arg[1].content = <<60, 97, 62>>
    /\ arg[5].content = <<80, 75, 5, 6, 0>>
    /\ ExtractedAt(ret, CdPos(ret, 5)) = <<80, 75, 5, 6, 0>>

----------------------------------------------------------------------------
(* The CSV and the JSON report built from one result *)

\* the summaries a language can have in a result handed to the reports
SummaryPool ==
    { EmptySummary,
      [fileCount |-> 1, lineCount |-> 7, blankLineCount |-> 1, commentLineCount |-> 2,
       functions |-> FinalizeFunctions([EmptyFunctions EXCEPT !.lengths = <<3>>])],
      [fileCount |-> 12, lineCount |-> 105, blankLineCount |-> 0, commentLineCount |-> 30,
       functions |-> FinalizeFunctions([EmptyFunctions EXCEPT !.lengths = <<5, 2>>])] }

\* results over every set of language keys analyze can create
ReportInputs ==
    UNION { { [EmptyResult EXCEPT !.languageSummaries = f,
                                  !.includedLanguages = S,
                                  !.includeBlankLines = b,
                                  !.includeCommentLines = c] :
                f \in [S -> SummaryPool], b \in BOOLEAN, c \in BOOLEAN } :
            S \in SUBSET AllLanguages }

ReportInit ==
    /\ IdleRequest
    /\ op = "none"
    /\ arg \in ReportInputs
    /\ ret = <<>>

\* lines 581-586: the two payloads handleClient can build from stats
BuildReports ==
    /\ op = "none"
    /\ op' = "report"
    /\ ret' = [csv |-> buildCsvReport(arg), json |-> buildJsonReport(arg)]
    /\ UNCHANGED <<requestVars, arg>>

ReportNext == BuildReports

SpecReport == ReportInit /\ [][ReportNext]_vars

(* C16 *)

\* the text of t up to, exclusively, the first occurrence of mark
Before(t, mark) == SubSeq(t, 1, Find(t, mark) - 1)

\* the text of t after the first occurrence of mark
After(t, mark) == SubstrFrom(t, Find(t, mark) + Len(mark))

\* the rows read back from CSV text: every line is "name",files,lines,...
RECURSIVE CsvRowsOf(_)
CsvRowsOf(t) ==
    IF Find(t, "\n") = 0 THEN <<>>
    ELSE LET line   == Before(t, "\n")
             quoted == After(line, "\"")
             fields == After(quoted, "\",")
         IN  << [name  |-> Before(quoted, "\""),
                 files |-> Before(fields, ","),
                 lines |-> Before(After(fields, ","), ",")] >>
             \o CsvRowsOf(After(t, "\n"))

\* the rows read back from the CSV report, its header line left out
CsvRead(t) == CsvRowsOf(After(t, "\n"))

\* the rows read back from JSON text: every object of the array is
\* {"language":"name","files":n,"lines":n,...
RECURSIVE JsonRead(_)
JsonRead(t) ==
    IF Find(t, "{\"language\":\"") = 0 THEN <<>>
    ELSE LET object == After(t, "{\"language\":\"")
             files  == After(object, "\",\"files\":")
             lines  == After(files, ",\"lines\":")
         IN  << [name  |-> Before(object, "\""),
                 files |-> Before(files, ","),
                 lines |-> Before(lines, ",")] >>
             \o JsonRead(lines)

\* C16: the rows read back from the CSV report and from the JSON report of
\* one result are the same sequence: one row for every language of
\* languageSummaries, in strictly ascending order of the language names,
\* with that language's fileCount and lineCount in both.
C16_CsvJsonAgree ==
    op = "report" =>
        LET csv  == CsvRead(ret.csv)
            json == JsonRead(ret.json)
        IN  /\ csv = json
            /\ { csv[i].name : i \in 1..Len(csv) } = DOMAIN arg.languageSummaries
            /\ \A i \in 1..(Len(csv) - 1) : StringLess(csv[i].name, csv[i + 1].name)
            /\ \A i \in 1..Len(csv) :
                  /\ csv[i].files = ToDecimal(arg.languageSummaries[csv[i].name].fileCount)
                  /\ csv[i].lines = ToDecimal(arg.languageSummaries[csv[i].name].lineCount)

C16_Witness ==
    /\ op = "report"
    /\ DOMAIN arg.languageSummaries = {"C", "C#", "C++", "Python"}
    /\ arg.includeBlankLines /\ ~arg.includeCommentLines
    /\ Len(CsvRead(ret.csv)) = 4
    /\ JsonRead(ret.json)[2] = [name |-> "C#", files |-> "12", lines |-> "105"]
    /\ JsonRead(ret.json)[3].name = "C++"

----------------------------------------------------------------------------
(* Two threads of WebServer::run, each inside analyze.  arg[t] holds the
   locals of thread t; ret holds what the threads share: the function-local
   static tables of visitFile, initialised by the first call. *)

Threads == {1, 2}

ThreadRoots == {"", "sub", "a.py", "../wE"}

ThreadOptions ==
    { DefaultOptions,
      [languages |-> {"C", "Java"}, includeBlankLines |-> TRUE,
       includeCommentLines |-> TRUE] }

IdleThread ==
    [root |-> "", options |-> DefaultOptions, pc |-> "idle", result |-> EmptyResult,
     ec |-> FALSE, it |-> EndIterator, visited |-> <<>>]

ThreadsInit ==
    /\ IdleRequest
    /\ op = "threads"
    /\ arg = [t \in Threads |-> IdleThread]
    /\ ret = [tables |-> "uninitialised"]

\* lines 199-241 in thread t
ThreadCall(t) ==
    /\ arg[t].pc = "idle"
    /\ \E r \in ThreadRoots, o \in ThreadOptions :
       \E guard \in {PathGuard(r)} :
       \E first \in (IF ~guard.returns /\ CanList(guard.path)
                     THEN Advance(<<Children(guard.path)>>) ELSE {EndIterator}) :
          arg' = [arg EXCEPT ![t] =
                    [root |-> r, options |-> o,
                     pc |-> IF guard.returns THEN "returned" ELSE "walk",
                     result |-> [EmptyResult EXCEPT
                                   !.includeBlankLines = o.includeBlankLines,
                                   !.includeCommentLines = o.includeCommentLines,
                                   !.withinWorkspace = guard.withinWorkspace,
                                   !.directoryExists = guard.directoryExists],
                     ec |-> IF guard.returns THEN guard.ec ELSE ~CanList(guard.path),
                     it |-> first, visited |-> <<>>]]
    /\ UNCHANGED <<requestVars, op, ret>>

\* line 254 with the running total of lines kept in an object the threads
\* share
ThreadVisitSharedTotals(filePath, local, shared) ==
    LET counted == visitFile(filePath, local.result, local.options)
        before  == IF "totalLines" \in DOMAIN shared THEN shared.totalLines ELSE 0
        total   == before + (counted.totalLines - local.result.totalLines)
    IN  [local  |-> [local EXCEPT !.result = [counted EXCEPT !.totalLines = total],
                                  !.visited = Append(@, filePath)],
         shared |-> ("totalLines" :> total) @@ ("tables" :> "ready")]

\* line 254: visitFile on the thread's own result; the static tables of
\* lines 302-307 are initialised by the first call in the process
ThreadVisit(filePath, local, shared) ==
    [local  |-> [local EXCEPT !.result = visitFile(filePath, @, local.options),
                              !.visited = Append(@, filePath)],
     shared |-> [shared EXCEPT !.tables = "ready"]]

\* lines 243-259 in thread t: one pass of the walk loop
ThreadWalk(t) ==
    /\ arg[t].pc = "walk"
    /\ ~arg[t].it.end
    /\ \E type \in {EntryType(arg[t].it.cur)} :
       \E seen \in {[arg[t].it EXCEPT !.pending =
                        IF type = "dir" /\ isDirectoryExcluded(arg[t].it.cur)
                        THEN FALSE ELSE @]} :
       \E after \in {IF type = "file" THEN ThreadVisit(arg[t].it.cur, arg[t], ret)
                     ELSE [local |-> arg[t], shared |-> ret]} :
          IF type = "error" \/ IncrementThrows(seen)
          THEN /\ arg' = [arg EXCEPT ![t] = [after.local EXCEPT !.pc = "thrown"]]
               /\ ret' = after.shared
          ELSE \E next \in Increment(seen) :
                  /\ arg' = [arg EXCEPT ![t] = [after.local EXCEPT !.it = next]]
                  /\ ret' = after.shared
    /\ UNCHANGED <<requestVars, op>>

\* lines 261-287 in thread t
ThreadFinalize(t) ==
    /\ arg[t].pc = "walk"
    /\ arg[t].it.end
    /\ arg' = [arg EXCEPT ![t].result.languageSummaries = FinalizeAll(@),
                          ![t].pc = "insert"]
    /\ UNCHANGED <<requestVars, op, ret>>

\* lines 289-296 in thread t
ThreadReturn(t) ==
    /\ arg[t].pc = "insert"
    /\ arg' = [arg EXCEPT ![t].result = ForceInsert(@, arg[t].options),
                          ![t].pc = "returned"]
    /\ UNCHANGED <<requestVars, op, ret>>

ThreadsNext ==
    \E t \in Threads :
        \/ ThreadCall(t)
        \/ ThreadWalk(t)
        \/ ThreadFinalize(t)
        \/ ThreadReturn(t)

SpecThreads == ThreadsInit /\ [][ThreadsNext]_vars

(* C17 *)

\* the result after visitFile on files[i..] in turn
RECURSIVE VisitAll(_, _, _, _)
VisitAll(files, i, res, opts) ==
    IF i > Len(files) THEN res
    ELSE VisitAll(files, i + 1, visitFile(files[i], res, opts), opts)

\* what analyze(r, o) returns when it runs alone and readdir yields the
\* regular files in the order files
AloneResult(r, o, files) ==
    LET guard == PathGuard(r)
        start == [EmptyResult EXCEPT
                    !.includeBlankLines = o.includeBlankLines,
                    !.includeCommentLines = o.includeCommentLines,
                    !.withinWorkspace = guard.withinWorkspace,
                    !.directoryExists = guard.directoryExists]
        walk  == VisitAll(files, 1, start, o)
    IN  IF guard.returns THEN start
        ELSE ForceInsert([walk EXCEPT !.languageSummaries = FinalizeAll(@)], o)

\* the regular files a lone walk from root r visits
AloneFiles(r) ==
    LET canonical == weakly_canonical(CanonicalWorkspace.path
                         \o relative_path(IF r = "" THEN "." ELSE r))
        guard     == PathGuard(r)
    IN  IF guard.returns \/ ~CanList(guard.path) THEN {}
        ELSE ReachableFiles(canonical.path)

\* C17: under every interleaving of the steps of two analyze calls on a
\* filesystem nobody writes, a call that has returned holds the result it
\* returns when run alone on the same root and options: it visited the
\* files of its own root, each once, and its result is the one built from
\* them alone.
C17_ThreadsIndependent ==
    \A t \in Threads :
        (op = "threads" /\ arg[t].pc = "returned") =>
            /\ Range(arg[t].visited) = AloneFiles(arg[t].root)
            /\ Len(arg[t].visited) = Cardinality(AloneFiles(arg[t].root))
            /\ arg[t].result
                 = AloneResult(arg[t].root, arg[t].options, arg[t].visited)

C17_Witness ==
    /\ op = "threads"
    /\ arg[1].pc = "returned" /\ arg[2].pc = "returned"
    /\ arg[1].root = "" /\ arg[2].root = "sub"
    /\ arg[1].options # arg[2].options
    /\ arg[1].result.totalLines > 0 /\ arg[2].result.totalLines > 0
    /\ arg[1].result # arg[2].result


(* C18 *)

\* the static lookup table of extensions
ExtensionTable ==
    (".c" :> "C") @@ (".C" :> "C++") @@ (".cc" :> "C++") @@ (".cpp" :> "C++")
    @@ (".cxx" :> "C++") @@ (".h" :> "C++") @@ (".hpp" :> "C++")
    @@ (".hh" :> "C++") @@ (".hxx" :> "C++") @@ (".cs" :> "C#")
    @@ (".java" :> "Java") @@ (".py" :> "Python")

Unrecognized(p) == extension(p) \notin DOMAIN ExtensionTable

NotRequested(p, opts) ==
    /\ ~Unrecognized(p)
    /\ opts.languages # {}
    /\ ExtensionTable[extension(p)] \notin opts.languages

\* C18: a pass of the walk loop over a regular file whose extension is
\* not in the table, or whose language is not among the requested ones,
\* leaves the whole result (counters, languageSummaries, includedLanguages)
\* as it was; so a file changes the result only if its extension maps to
\* a language and options.languages is empty or contains it.
C18_OtherFilesChangeNothing ==
    [][ ( /\ pc = "walk" /\ ~it.end /\ ~ec
          /\ EntryType(it.cur) = "file"
          /\ Unrecognized(it.cur) \/ NotRequested(it.cur, options) )
        => result' = result ]_vars

C18_Witness ==
    /\ pc = "walk"
    /\ result.includedLanguages # {}
    /\ result.languageSummaries # EmptyResult.languageSummaries
    /\ \E i, j, k \in 1..Len(visited) :
          /\ i < j /\ i < k
          /\ ~Unrecognized(visited[i]) /\ ~NotRequested(visited[i], options)
          /\ Unrecognized(visited[j])
          /\ NotRequested(visited[k], options)


(* C19 *)

\* C19: whenever analyze returns for a root whose canonical path is the
\* canonical workspace or lies beneath it, withinWorkspace is true,
\* whatever the workspace is (the filesystem root included).
C19_BeneathAccepted ==
    ( /\ walked /\ pc \in {"returned", "done"}
      /\ CanonicalKnown
      /\ Beneath(CanonicalWorkspace.path, CanonicalRoot.path) )
    => result.withinWorkspace

----------------------------------------------------------------------------
(* computeLineMetrics read line by line.  arg holds the language and the
   lines std::getline has yielded so far; ret holds inBlockComment, the
   metrics, and for each line read its kind and the value inBlockComment
   had when it was read. *)

ClassifyLinePool ==
    { "/* a", "b */", "*/ x = 1;", "  x = 1;", "", "// c", "x = 1; /* c", " * d",
      "/*/", "/* c */", "a /* b */ c /* d", "* p /* e", "# c" }

MaxClassifyLines == 4

\* lines 60-67
ClassifyInit ==
    /\ IdleRequest
    /\ op = "classify"
    /\ arg \in [language : {"C", "Java", "Python"}, lines : {<<>>}]
    /\ ret = [inBlockComment |-> FALSE, metrics |-> ZeroMetrics,
              kinds |-> <<>>, modes |-> <<>>]

\* lines 68-117: one pass of the while loop, with both include flags set
ReadLine ==
    /\ op = "classify"
    /\ Len(arg.lines) < MaxClassifyLines
    /\ \E line \in ClassifyLinePool :
       \E c \in {classifyLine(line, arg.language, ret.inBlockComment)} :
          /\ arg' = [arg EXCEPT !.lines = Append(@, line)]
          /\ ret' = [inBlockComment |-> c.next,
                     metrics |-> MetricsLoop(<<line>>, 1, arg.language, TRUE, TRUE,
                                             ret.inBlockComment, ret.metrics),
                     kinds |-> Append(ret.kinds, c.kind),
                     modes |-> Append(ret.modes, ret.inBlockComment)]
    /\ UNCHANGED <<requestVars, op>>

ClassifyNext == ReadLine

SpecClassify == ClassifyInit /\ [][ClassifyNext]_vars

(* C20 *)

\* the text of a line without its leading and trailing blanks
RECURSIVE Stripped(_)
Stripped(s) ==
    IF s = "" THEN ""
    ELSE IF SubSeq(s, 1, 1) \in {" ", "\t"} THEN Stripped(SubSeq(s, 2, Len(s)))
    ELSE IF SubSeq(s, Len(s), Len(s)) \in {" ", "\t"}
         THEN Stripped(SubSeq(s, 1, Len(s) - 1))
    ELSE s

HasClose(s) == \E i \in 1..(Len(s) - 1) : SubSeq(s, i, i + 1) = "*/"

\* the kind of a non-blank line read outside block-comment mode
NormalKind(s) ==
    IF \/ (Len(s) >= 2 /\ SubSeq(s, 1, 2) \in {"//", "/*"})
       \/ SubSeq(s, 1, 1) = "*"
    THEN "comment" ELSE "logical"

\* the value of inBlockComment when line j + 1 is read
ModeAfter(j) ==
    IF j < Len(ret.modes) THEN ret.modes[j + 1] ELSE ret.inBlockComment

\* C20: in a brace language, every non-blank line read while
\* inBlockComment is set is a comment line, never a logical one; the mode
\* stays set after it unless its trimmed text contains "*/", in which case
\* the mode is off for the next line, and a non-blank line read with the
\* mode off is classified as at the start of a file.  The logical count
\* is the number of lines classified logical.
C20_BlockCommentMode ==
    (op = "classify" /\ arg.language # "Python") =>
        /\ \A j \in 1..Len(arg.lines) :
              LET text == Stripped(arg.lines[j]) IN
              /\ (ret.modes[j] /\ text # "") =>
                    /\ ret.kinds[j] = "comment"
                    /\ ModeAfter(j) = ~HasClose(text)
              /\ (~ret.modes[j] /\ text # "") => ret.kinds[j] = NormalKind(text)
              /\ text = "" => (ret.kinds[j] = "blank" /\ ModeAfter(j) = ret.modes[j])
        /\ ret.metrics.logical
             = Cardinality({j \in 1..Len(arg.lines) : ret.kinds[j] = "logical"})

C20_Witness ==
    /\ op = "classify" /\ arg.language = "C"
    /\ arg.lines = <<"x = 1; /* c", "  x = 1;", "*/ x = 1;", "  x = 1;">>
    /\ ret.modes = <<FALSE, TRUE, TRUE, FALSE>>
    /\ ret.kinds = <<"logical", "comment", "comment", "logical">>
    /\ ~ret.inBlockComment


(* C21 *)

\* s holds "*/" at or after position from
ClosedFrom(s, from) == \E i \in from..(Len(s) - 1) : SubSeq(s, i, i + 1) = "*/"

OpensWithBlock(s) == Len(s) >= 2 /\ SubSeq(s, 1, 2) = "/*"

\* C21: in a brace language, a line read with inBlockComment clear whose
\* trimmed text starts with "/*" is a comment line, and inBlockComment is
\* set for the next line unless "*/" appears after that opening "/*"
\* (so the line "/*/" sets it).
C21_OpenerEntersMode ==
    (op = "classify" /\ arg.language # "Python") =>
        \A j \in 1..Len(arg.lines) :
            LET text == Stripped(arg.lines[j]) IN
            (~ret.modes[j] /\ OpensWithBlock(text)) =>
                /\ ret.kinds[j] = "comment"
                /\ ModeAfter(j) = ~ClosedFrom(text, 3)


(* C22 *)

\* s holds a "/*" that no "*/" behind it closes
HasUnclosedOpener(s) ==
    \E i \in 1..(Len(s) - 1) :
        SubSeq(s, i, i + 1) = "/*" /\ ~ClosedFrom(s, i + 2)

StartsLineComment(s) == Len(s) >= 2 /\ SubSeq(s, 1, 2) = "//"

StartsStar(s) == Len(s) >= 1 /\ SubSeq(s, 1, 1) = "*"

\* C22: in a brace language, for a non-blank line read with
\* inBlockComment clear: if it starts with none of "//", "/*", "*" it is a
\* logical line and inBlockComment is set for the next line exactly when
\* the line holds a "/*" that no later "*/" on the line closes; a line
\* starting with "//" or "*" leaves inBlockComment clear.
C22_InnerOpener ==
    (op = "classify" /\ arg.language # "Python") =>
        \A j \in 1..Len(arg.lines) :
            LET text == Stripped(arg.lines[j]) IN
            (~ret.modes[j] /\ text # "") =>
                /\ (~StartsLineComment(text) /\ ~OpensWithBlock(text)
                        /\ ~StartsStar(text))
                   => /\ ret.kinds[j] = "logical"
                      /\ ModeAfter(j) = HasUnclosedOpener(text)
                /\ (StartsLineComment(text) \/ StartsStar(text))
                   => ~ModeAfter(j)


(* C23 *)

\* the def lines inside the body of the function opened at line i
NestedDefs(lines, i) ==
    { k \in DefLines(lines) : i < k /\ k < BodyEnd(lines, i) }

\* the other non-blank lines of that body
PlainBodyLines(lines, i) ==
    { j \in (i + 1)..(BodyEnd(lines, i) - 1) :
        ~IsBlankLine(lines[j]) /\ j \notin DefLines(lines) }

\* the record whose lineNumber is i
RecordsAt(i) == { n \in 1..Len(ret) : ret[n].lineNumber = i }

\* C23: the Python extractor makes exactly one record for every line
\* whose trimmed text begins with "def ", nested or not, with lineNumber
\* the 1-based number of that line; and the length of a function counts,
\* besides its own def line and the other non-blank lines of its body,
\* one line for every def line nested in the body.
C23_NestedRecordedAndCounted ==
    op = "python" =>
        /\ Len(ret) = Cardinality(DefLines(arg))
        /\ \A i \in DefLines(arg) :
              /\ Cardinality(RecordsAt(i)) = 1
              /\ \A n \in RecordsAt(i) :
                    ret[n].length
                      = 1 + Cardinality(NestedDefs(arg, i))
                          + Cardinality(PlainBodyLines(arg, i))
              /\ \A k \in NestedDefs(arg, i) :
                    /\ IndentOf(arg[k]) > IndentOf(arg[i])
                    /\ RecordsAt(k) # {}

C23_Witness ==
    /\ op = "python"
    /\ arg = << "def f():", "    def g():", "    x = 1", "x = 1" >>
    /\ Len(ret) = 2
    /\ ret[1].lineNumber = 1 /\ ret[1].length = 3
    /\ ret[2].lineNumber = 2 /\ ret[2].length = 1


(* C24 *)

\* the text of a line in front of its first "//"
CodePart(l) ==
    LET cut == Min({ i \in 1..(Len(l) - 1) : SubSeq(l, i, i + 1) = "//" }
                   \cup {Len(l) + 1})
    IN  SubSeq(l, 1, cut - 1)

HasChar(s, c) == \E i \in 1..Len(s) : SubSeq(s, i, i) = c

Occurrences(s, c) == Cardinality({ i \in 1..Len(s) : SubSeq(s, i, i) = c })

NetBraces(l) == Occurrences(CodePart(l), "{") - Occurrences(CodePart(l), "}")

\* lines from..to that are not blank once the comment is cut off
CountedLines(lines, from, to) ==
    { k \in from..to : ~IsBlankLine(CodePart(lines[k])) }

\* the first line at or after s holding "{" once the lines from s on hold "("
BraceLineOf(lines, s) ==
    Min({ k \in s..Len(lines) :
            /\ HasChar(CodePart(lines[k]), "{")
            /\ \E h \in s..k : HasChar(CodePart(lines[h]), "(") }
        \cup {Len(lines) + 1})

\* the braces open after line k, counted from line b on
RECURSIVE DepthAfter(_, _, _)
DepthAfter(lines, b, k) ==
    IF k < b THEN 0 ELSE DepthAfter(lines, b, k - 1) + NetBraces(lines[k])

\* the first line at or after b behind which no brace is open
CloseLineOf(lines, b) ==
    Min({ k \in b..Len(lines) : DepthAfter(lines, b, k) <= 0 }
        \cup {Len(lines) + 1})

\* C24: the length of every record of the brace extractor is the number
\* of non-blank signature lines from its start line through the line
\* holding "{", plus the number of non-blank lines (after "//" is cut
\* off) behind it through the line where the brace depth first is <= 0;
\* when the "{" line itself brings the depth to <= 0 only the signature
\* lines are counted.
C24_BraceLength ==
    op = "brace" =>
        \A n \in 1..Len(ret.out) :
            LET s == ret.out[n].lineNumber
                b == BraceLineOf(arg, s)
                c == CloseLineOf(arg, b)
            IN  /\ s >= 1 /\ b <= Len(arg) /\ c <= Len(arg)
                /\ ret.out[n].length
                     = Cardinality(CountedLines(arg, s, b))
                       + Cardinality(CountedLines(arg, b + 1, c))
                /\ NetBraces(arg[b]) <= 0
                     => ret.out[n].length = Cardinality(CountedLines(arg, s, b))

C24_Witness ==
    /\ op = "brace"
    /\ arg = << "int g()", "{", "    // note", "}" >>
    /\ Len(ret.out) = 1
    /\ ret.out[1].name = "g"
    /\ ret.out[1].lineNumber = 1
    /\ ret.out[1].length = 3


(* C25 *)

\* C25: no record of the brace extractor takes in a statement or forward
\* declaration: between the start line of a record and its "{" line no
\* line holds ";", and the file "int foo(int);" followed by a definition
\* of bar yields one record, named bar, starting at bar's line, with the
\* length of bar alone.
C25_DeclarationNeverRecorded ==
    op = "brace" =>
        /\ \A n \in 1..Len(ret.out) :
              \A k \in ret.out[n].lineNumber..(BraceLineOf(arg, ret.out[n].lineNumber) - 1) :
                  ~HasChar(CodePart(arg[k]), ";")
        /\ arg = ForwardDeclExample =>
              /\ Len(ret.out) = 1
              /\ ret.out[1].name = "bar"
              /\ ret.out[1].lineNumber = 2
              /\ ret.out[1].length = 3


(* C26 *)

FilteredKeywords ==
    { "if", "for", "while", "switch", "catch", "return", "else", "class",
      "struct", "enum", "case", "default", "using", "typedef" }

\* the first token of the code of a line, up to the first blank or "("
FirstToken(l) ==
    LET text == Stripped(CodePart(l))
        stop == Min({ i \in 1..Len(text) : SubSeq(text, i, i) \in {" ", "\t", "("} }
                    \cup {Len(text) + 1})
    IN  SubSeq(text, 1, stop - 1)

KeywordFirst(l) == toLowerCopy(FirstToken(l)) \in FilteredKeywords

\* the lines s..k hold an operator overload
HoldsOperator(lines, s, k) ==
    \E h \in s..k :
        \E i \in 1..(Len(lines[h]) - 7) :
            toLowerCopy(SubSeq(lines[h], i, i + 7)) = "operator"

\* the file ends with the "{" line of a signature that begins at line s
\* with a keyword: nothing but blank lines in front of s, "(" on line s,
\* no blank line from s on, and the last line the first one holding "{"
EndsWithKeywordBlock(lines, s) ==
    /\ s \in 1..Len(lines)
    /\ \A k \in 1..(s - 1) : IsBlankLine(CodePart(lines[k]))
    /\ \A k \in s..Len(lines) : ~IsBlankLine(CodePart(lines[k]))
    /\ HasChar(CodePart(lines[s]), "(")
    /\ KeywordFirst(lines[s])
    /\ ~HoldsOperator(lines, s, Len(lines))
    /\ BraceLineOf(lines, s) = Len(lines)

EndsWithOperatorHead(lines, s) ==
    /\ s \in 1..Len(lines)
    /\ \A k \in 1..(s - 1) : IsBlankLine(CodePart(lines[k]))
    /\ \A k \in s..Len(lines) : ~IsBlankLine(CodePart(lines[k]))
    /\ \E i \in 1..Len(lines[s]) :
          /\ SubSeq(lines[s], i, i) = "("
          /\ \E h \in (i + 1)..Len(lines[s]) : SubSeq(lines[s], h, h) = ")"
    /\ SubSeq(Stripped(lines[s]), 1, 1) # "#"
    /\ HoldsOperator(lines, s, Len(lines))
    /\ BraceLineOf(lines, s) = Len(lines)

\* C27: a signature holding an operator overload is accepted as a
\* function whatever its first token is: once its "{" line is read a body
\* is open, or a record starting at its first line has been emitted; the
\* file with "T operator+" and "struct T operator-" yields two records.
C27_OperatorAlwaysAccepted ==
    op = "brace" =>
        /\ \A s \in 1..Len(arg) :
              EndsWithOperatorHead(arg, s)
                  => \/ ret.insideFunction /\ ret.functionStartLine = s
                     \/ \E n \in 1..Len(ret.out) : ret.out[n].lineNumber = s
        /\ arg = OperatorExample
              => /\ Len(ret.out) = 2
                 /\ ret.out[1].lineNumber = 1
                 /\ ret.out[2].lineNumber = 3


(* C28 *)

\* the line that closes the body of the record starting at line s
ClosingLineOf(lines, s) == CloseLineOf(lines, BraceLineOf(lines, s))

\* C28: the records of one file never nest: each record's lines, from
\* its start line through the line closing its body, end before the start
\* line of the next record, so the ranges are pairwise disjoint and the
\* start lines strictly increase; and while a body is open at the end of
\* the file every record emitted lies before its start line.
C28_RecordsNeverNest ==
    op = "brace" =>
        /\ \A n \in 1..Len(ret.out) :
              /\ ret.out[n].lineNumber <= ClosingLineOf(arg, ret.out[n].lineNumber)
              /\ ClosingLineOf(arg, ret.out[n].lineNumber) <= Len(arg)
        /\ \A n, m \in 1..Len(ret.out) :
              n < m => ClosingLineOf(arg, ret.out[n].lineNumber) < ret.out[m].lineNumber
        /\ ret.insideFunction =>
              \A n \in 1..Len(ret.out) :
                  ClosingLineOf(arg, ret.out[n].lineNumber) < ret.functionStartLine

C28_Witness ==
    /\ op = "brace"
    /\ arg = << "int add(int a, int b) {", "int f() { return 1; }", "}",
                "int f() { return 1; }" >>
    /\ Len(ret.out) = 2
    /\ ret.out[1].name = "add" /\ ret.out[1].lineNumber = 1 /\ ret.out[1].length = 3
    /\ ret.out[2].name = "f" /\ ret.out[2].lineNumber = 4


(* C29 *)

\* the bytes the local records of the parts before part k take
RECURSIVE LocalBytesBefore(_, _)
LocalBytesBefore(parts, k) ==
    IF k <= 1 THEN 0
    ELSE LocalBytesBefore(parts, k - 1)
            + 30 + Len(parts[k - 1].name) + Len(parts[k - 1].content)

\* the bytes the central directory records of the parts before part k take
RECURSIVE CentralBytesBefore(_, _)
CentralBytesBefore(parts, k) ==
    IF k <= 1 THEN 0
    ELSE CentralBytesBefore(parts, k - 1) + 46 + Len(parts[k - 1].name)

\* C29: in the finalized archive the local header of part k (PK 03 04)
\* begins at the sum over the earlier parts of 30 + name length + content
\* length, and the k-th central directory record (PK 01 02), k-th in the
\* order of the parts, records that position as its local header offset;
\* the central directory begins where the last part's data ends, and the
\* end-of-central-directory record (PK 05 06) holds the number of parts
\* twice, the length of the central directory (sum of 46 + name length)
\* and its start.
C29_ZipLayout ==
    op = "zipped" =>
        LET parts   == Len(arg)
            cdStart == LocalBytesBefore(arg, parts + 1)
            cdSize  == CentralBytesBefore(arg, parts + 1)
            e       == cdStart + cdSize
        IN  /\ Len(ret) = e + 22
            /\ \A k \in 1..parts :
                  LET local == LocalBytesBefore(arg, k)
                      cd    == cdStart + CentralBytesBefore(arg, k)
                  IN  /\ BytesAt(ret, local, 4) = <<80, 75, 3, 4>>
                      /\ BytesAt(ret, local + 30, Len(arg[k].name)) = arg[k].name
                      /\ BytesAt(ret, cd, 4) = <<80, 75, 1, 2>>
                      /\ U32At(ret, cd + 42) = local
                      /\ BytesAt(ret, cd + 46, Len(arg[k].name)) = arg[k].name
            /\ BytesAt(ret, e, 4) = <<80, 75, 5, 6>>
            /\ U16At(ret, e + 8) = parts
            /\ U16At(ret, e + 10) = parts
            /\ U32At(ret, e + 12) = cdSize
            /\ U32At(ret, e + 16) = cdStart

C29_Witness ==
    /\ op = "zipped"
    /\ Len(arg) = 3
    /\ arg[1].name = <<120, 108, 47, 98>> /\ arg[1].content = <<60, 97, 62>>
    /\ arg[2].name = <<97>> /\ arg[2].content = <<>>
    /\ arg[3].name = <<98>> /\ arg[3].content = <<80, 75, 5, 6, 0>>
    /\ U32At(ret, 104 + 50 + 42) = 37
    /\ U32At(ret, 104 + 50 + 47 + 42) = 68
    /\ U32At(ret, Len(ret) - 22 + 12) = 144
    /\ U32At(ret, Len(ret) - 22 + 16) = 104

----------------------------------------------------------------------------
(* crc32 followed byte by byte: arg is the part of data the loop of lines
   247-249 has consumed, ret the register crc, then the value returned *)

CrcBytePool == {0, 1, 10, 97, 128, 255}

MaxCrcBytes == 3

\* the bytes of "123456789"
CheckString == <<49, 50, 51, 52, 53, 54, 55, 56, 57>>

\* line 246, or the loop having consumed the check string
CrcInit ==
    /\ IdleRequest
    /\ op = "crcloop"
    /\ arg \in {<<>>, CheckString}
    /\ ret = CrcLoop(arg, 1, AllOnes32)

\* line 247-249: one pass of the loop
CrcByte ==
    /\ op = "crcloop"
    /\ Len(arg) < MaxCrcBytes
    /\ \E ch \in CrcBytePool :
          /\ arg' = Append(arg, ch)
          /\ ret' = CrcLoop(<<ch>>, 1, ret)
    /\ UNCHANGED <<requestVars, op>>

\* line 250
CrcReturn ==
    /\ op = "crcloop"
    /\ op' = "crc32"
    /\ ret' = Xor32(ret, AllOnes32)
    /\ UNCHANGED <<requestVars, arg>>

CrcNext == CrcByte \/ CrcReturn

SpecCrc == CrcInit /\ [][CrcNext]_vars

(* C30 *)

\* a 32-bit value as its two 16-bit halves, each a number
RECURSIVE BitsValue(_, _, _)
BitsValue(bits, from, to) ==
    IF from > to THEN 0 ELSE bits[from] + 2 * BitsValue(bits, from + 1, to)

Halves(bits) == [hi |-> BitsValue(bits, 17, 32), lo |-> BitsValue(bits, 1, 16)]

\* exclusive or of two numbers
RECURSIVE XorNat(_, _)
XorNat(a, b) ==
    IF a = 0 /\ b = 0 THEN 0
    ELSE (((a % 2) + (b % 2)) % 2) + 2 * XorNat(a \div 2, b \div 2)

\* the reflected CRC-32 bit by bit, on halves: 0xEDB88320 is 60856 * 65536
\* + 33568
RefBit(v) ==
    LET shifted == [hi |-> v.hi \div 2, lo |-> v.lo \div 2 + 32768 * (v.hi % 2)]
    IN  IF v.lo % 2 = 1
        THEN [hi |-> XorNat(shifted.hi, 60856), lo |-> XorNat(shifted.lo, 33568)]
        ELSE shifted

RECURSIVE RefBits(_, _)
RefBits(v, n) ==
    IF n = 0 THEN v
    ELSE CHOOSE r \in { RefBits(w, n - 1) : w \in {RefBit(v)} } : TRUE

RECURSIVE RefLoop(_, _, _)
RefLoop(data, k, v) ==
    IF k > Len(data) THEN v
    ELSE CHOOSE r \in { RefLoop(data, k + 1, w) :
                          w \in {RefBits([v EXCEPT !.lo = XorNat(@, data[k])], 8)} } :
            TRUE

RefCrc(data) ==
    LET r == RefLoop(data, 1, [hi |-> 65535, lo |-> 65535])
    IN  [hi |-> XorNat(r.hi, 65535), lo |-> XorNat(r.lo, 65535)]

InHalfRange(v) == v.hi \in 0..65535 /\ v.lo \in 0..65535

\* every table entry is eight bit steps applied to its index
TableIsEightSteps ==
    \A i \in 0..255 : Halves(CrcTable(i)) = RefBits([hi |-> 0, lo |-> i], 8)

\* C30: the value crc32 returns is the reflected CRC-32 of the bytes,
\* computed bit by bit with polynomial 0xEDB88320, initial value
\* 0xFFFFFFFF and final exclusive or with 0xFFFFFFFF; the register of the
\* byte loop equals the bit-by-bit register after every byte and is a
\* 32-bit value; table[i] is eight bit steps applied to i; the empty
\* string gives 0 and "123456789" gives 0xCBF43926.
C30_CrcIsReflectedCrc32 ==
    /\ op = "crcloop" =>
          /\ ret \in [1..32 -> {0, 1}]
          /\ Halves(ret) = RefLoop(arg, 1, [hi |-> 65535, lo |-> 65535])
          /\ InHalfRange(Halves(ret))
    /\ op = "crc32" =>
          /\ ret \in [1..32 -> {0, 1}]
          /\ ret = crc32(arg)
          /\ Halves(ret) = RefCrc(arg)
          /\ arg = <<>> => Halves(ret) = [hi |-> 0, lo |-> 0]
          /\ arg = CheckString => Halves(ret) = [hi |-> 52212, lo |-> 14630]
    /\ op \in {"crcloop", "crc32"} => TableIsEightSteps

C30_Witness ==
    /\ op = "crc32"
    /\ arg = <<97, 255, 0>>
    /\ Halves(ret) = RefCrc(arg)
    /\ Halves(ret) # [hi |-> 0, lo |-> 0]

----------------------------------------------------------------------------
(* cellRef followed pass by pass: arg holds the arguments row and col and
   the locals c and ref *)

MaxRow == 12

MaxCol == 703

\* line 148-149: ref empty, c = col
CellRefInit ==
    /\ IdleRequest
    /\ op = "cellref"
    /\ \E row \in 1..MaxRow, col \in 0..MaxCol :
          arg = [row |-> row, col |-> col, c |-> col, ref |-> ""]
    /\ ret = ""

\* lines 150-153: the loop condition holds, one pass
CellRefLoop ==
    /\ op = "cellref"
    /\ arg.c >= 0
    /\ arg' = CellRefPass(arg)
    /\ UNCHANGED <<requestVars, op, ret>>

\* lines 154-155: the loop has ended
CellRefReturn ==
    /\ op = "cellref"
    /\ arg.c < 0
    /\ op' = "cellrefdone"
    /\ ret' = arg.ref \o ToDecimal(arg.row)
    /\ UNCHANGED <<requestVars, arg>>

CellRefNext == CellRefLoop \/ CellRefReturn

SpecCellRef == CellRefInit /\ [][CellRefNext]_vars

(* C31 *)

\* reading a reference back: the letters as a bijective base-26 numeral
\* (A = 1 .. Z = 26), less one, and the digits as the row
LetterValue(ch) ==
    CHOOSE n \in 0..26 :
        IF \E k \in 1..26 : SubSeq("ABCDEFGHIJKLMNOPQRSTUVWXYZ", k, k) = ch
        THEN n >= 1 /\ SubSeq("ABCDEFGHIJKLMNOPQRSTUVWXYZ", n, n) = ch
        ELSE n = 0

DigitValue(ch) ==
    CHOOSE n \in -1..9 :
        IF \E k \in 1..10 : SubSeq("0123456789", k, k) = ch
        THEN n >= 0 /\ SubSeq("0123456789", n + 1, n + 1) = ch
        ELSE n = -1

\* the number of leading letters of a reference
LetterCount(s) ==
    Cardinality({ i \in 1..Len(s) :
                    \A h \in 1..i : LetterValue(SubSeq(s, h, h)) > 0 })

RECURSIVE Bijective26(_, _)
Bijective26(s, n) ==
    IF n = 0 THEN 0
    ELSE 26 * Bijective26(s, n - 1) + LetterValue(SubSeq(s, n, n))

RECURSIVE DecimalOf(_, _, _)
DecimalOf(s, from, to) ==
    IF to < from THEN 0
    ELSE 10 * DecimalOf(s, from, to - 1) + DigitValue(SubSeq(s, to, to))

ReadCellRef(s) ==
    [col |-> Bijective26(s, LetterCount(s)) - 1,
     row |-> DecimalOf(s, LetterCount(s) + 1, Len(s))]

\* the column letters the statement names
NamedColumns ==
    (0 :> "A") @@ (25 :> "Z") @@ (26 :> "AA") @@ (27 :> "AB")
    @@ (701 :> "ZZ") @@ (702 :> "AAA")

\* C31: cellRef(row, col) is the column in bijective base-26 letters
\* (0 -> A, 25 -> Z, 26 -> AA, 27 -> AB, 701 -> ZZ, 702 -> AAA) followed
\* by the row in decimal; reading the reference back gives row and col
\* again, so distinct pairs get distinct references; and the loop
\* terminates: every pass makes c smaller and it stops below 0.
C31_CellRefBijective ==
    /\ op = "cellref" =>
          /\ arg.c >= -1
          /\ arg.c <= arg.col - Len(arg.ref)
    /\ op = "cellrefdone" =>
          /\ arg.c = -1
          /\ ReadCellRef(ret) = [col |-> arg.col, row |-> arg.row]
          /\ LetterCount(ret) = Len(arg.ref)
          /\ Len(ret) > Len(arg.ref)
          /\ arg.col \in DOMAIN NamedColumns
                => ret = NamedColumns[arg.col] \o ToDecimal(arg.row)

C31_Witness ==
    /\ op = "cellrefdone"
    /\ arg.col = 702 /\ arg.row = 11
    /\ ret = "AAA11"


(* C32 *)

\* the pieces of s between its occurrences of mark
RECURSIVE SplitAt(_, _)
SplitAt(s, mark) ==
    IF Find(s, mark) = 0 THEN <<s>>
    ELSE <<Before(s, mark)>> \o SplitAt(After(s, mark), mark)

\* the lines of the CSV text, each ended by a line feed, the byte order
\* mark taken off the first
CsvLines(t) ==
    LET pieces == SplitAt(SubSeq(t, 4, Len(t)), "\n")
    IN  SubSeq(pieces, 1, Len(pieces) - 1)

ExpectedHeader(blank, comment) ==
    <<"Language", "Files", "Lines">>
    \o (IF blank THEN <<"BlankLines">> ELSE <<>>)
    \o (IF comment THEN <<"CommentLines">> ELSE <<>>)
    \o <<"Functions", "MinFunctionLength", "MaxFunctionLength",
         "AverageFunctionLength", "MedianFunctionLength">>

\* C32: the header of the CSV report is Language, Files, Lines, then
\* BlankLines iff includeBlankLines, then CommentLines iff
\* includeCommentLines, then the five function columns; there is one data
\* row per language, every data row has as many comma-separated fields as
\* the header, and the optional fields hold the language's blank and
\* comment counts.
C32_CsvShape ==
    op = "report" =>
        LET lines  == CsvLines(ret.csv)
            header == SplitAt(lines[1], ",")
            b      == arg.includeBlankLines
            c      == arg.includeCommentLines
        IN  /\ Len(lines) = 1 + Cardinality(DOMAIN arg.languageSummaries)
            /\ header = ExpectedHeader(b, c)
            /\ Len(header) = 8 + (IF b THEN 1 ELSE 0) + (IF c THEN 1 ELSE 0)
            /\ \A i \in 2..Len(lines) :
                  LET fields  == SplitAt(lines[i], ",")
                      name    == SubSeq(fields[1], 2, Len(fields[1]) - 1)
                      summary == arg.languageSummaries[name]
                  IN  /\ Len(fields) = Len(header)
                      /\ name \in DOMAIN arg.languageSummaries
                      /\ fields[3] = ToDecimal(summary.lineCount)
                      /\ b => fields[4] = ToDecimal(summary.blankLineCount)
                      /\ c => fields[IF b THEN 5 ELSE 4]
                                = ToDecimal(summary.commentLineCount)
                      /\ fields[Len(fields) - 4]
                           = ToDecimal(summary.functions.functionCount)

C32_Witness ==
    /\ op = "report"
    /\ ~arg.includeBlankLines /\ arg.includeCommentLines
    /\ DOMAIN arg.languageSummaries = {"C", "C++", "Python"}
    /\ arg.languageSummaries["C++"].commentLineCount = 30
    /\ Len(CsvLines(ret.csv)) = 4
    /\ SplitAt(CsvLines(ret.csv)[1], ",")[4] = "CommentLines"
    /\ SplitAt(CsvLines(ret.csv)[3], ",")[4] = "30"


(* C33 *)

\* C33: with both include flags set, the three counters of
\* computeLineMetrics add up to the number of lines read, in Python and in
\* the brace languages: every line is counted once, as blank, comment or
\* logical; the lines counted blank are the lines of white space only, and
\* in Python the comment lines are the lines whose text begins with "#".
C33_CountersPartitionLines ==
    op = "classify" =>
        /\ ret.metrics.logical + ret.metrics.blank + ret.metrics.comment
             = Len(arg.lines)
        /\ ret.metrics.logical >= 0 /\ ret.metrics.blank >= 0
        /\ ret.metrics.comment >= 0
        /\ ret.metrics.blank
             = Cardinality({ j \in 1..Len(arg.lines) : Stripped(arg.lines[j]) = "" })
        /\ arg.language = "Python" =>
              ret.metrics.comment
                = Cardinality({ j \in 1..Len(arg.lines) :
                                  /\ Len(Stripped(arg.lines[j])) >= 1
                                  /\ SubSeq(Stripped(arg.lines[j]), 1, 1) = "#" })

C33_Witness ==
    /\ op = "classify" /\ arg.language = "Python"
    /\ arg.lines = <<"# c", "", "/* a", "  x = 1;">>
    /\ ret.metrics = [logical |-> 2, blank |-> 1, comment |-> 1]


(* C34 *)

\* The lines after line j up to and including the first one that is not
\* white space only
BlankRun(j) ==
    { k \in (j + 1)..Len(arg.lines) :
        \A m \in (j + 1)..(k - 1) : Stripped(arg.lines[m]) = "" }

\* C34: a blank line never changes block-comment mode.  A line of white space
\* only read while a block comment is open is counted as blank and not as
\* comment, the mode is still on after it, and the first line after it that
\* is not blank is classified as a comment.
C34_BlankKeepsMode ==
    (op = "classify" /\ arg.language # "Python") =>
        /\ \A j \in 1..Len(arg.lines) :
              Stripped(arg.lines[j]) = "" =>
                 /\ ModeAfter(j) = ret.modes[j]
                 /\ ret.kinds[j] = "blank"
                 /\ ret.modes[j] =>
                       \A k \in BlankRun(j) :
                          Stripped(arg.lines[k]) # "" => ret.kinds[k] = "comment"
        /\ ret.metrics.comment
             = Cardinality({ j \in 1..Len(arg.lines) : ret.kinds[j] = "comment" })
        /\ ret.metrics.blank
             = Cardinality({ j \in 1..Len(arg.lines) : ret.kinds[j] = "blank" })

C34_Witness ==
    /\ op = "classify" /\ arg.language = "Java"
    /\ arg.lines = <<"/* a", "", "  x = 1;", "b */">>
    /\ ret.modes = <<FALSE, TRUE, TRUE, TRUE>>
    /\ ret.kinds = <<"comment", "blank", "comment", "comment">>
    /\ ret.metrics = [logical |-> 0, blank |-> 1, comment |-> 3]
    /\ ~ret.inBlockComment


----------------------------------------------------------------------------
(* The extractors, the summaries and the finalisation on files given by
   their lines *)

\* the most lines of a pooled file and the most files of one analysis
MaxRecordLines == 3
MaxFiles == 2

\* the files of the first visit and the files of the later visits
RecordFiles ==
    { [language |-> "Python", lines |-> l] :
        l \in SeqsUpTo(PyLinePool, MaxRecordLines) \cup {PyExample} }
    \cup
    { [language |-> "C", lines |-> l] :
        l \in SeqsUpTo(BraceLinePool, MaxRecordLines)
                \cup {AddExample, ForwardDeclExample, OperatorExample} }

LaterFiles ==
    { [language |-> "Python", lines |-> PyExample],
      [language |-> "C", lines |-> AddExample] }

\* the path of the n-th file visited
RecordPath(n, language) ==
    <<"w", "f" \o ToDecimal(n) \o (IF language = "Python" THEN ".py" ELSE ".c")>>

\* CodeStatsResult result; of line 201: no summary yet
RecordsInit ==
    /\ IdleRequest
    /\ op = "records"
    /\ arg = <<>>
    /\ ret = [k \in {} |-> EmptySummary]

\* visitFile, lines 331-352, on the next file: the extractor of its language
\* appends to the language's summary
AnalyzeFile ==
    /\ op = "records"
    /\ Len(arg) < MaxFiles
    /\ \E f \in (IF arg = <<>> THEN RecordFiles ELSE LaterFiles) :
       \E filePath \in {RecordPath(Len(arg) + 1, f.language)} :
       \E found \in { IF f.language = "Python"
                      THEN PythonLoop(f.lines, 1, filePath)
                      ELSE BraceLoop(f.lines, 1, BraceInit, f.language, filePath).out } :
       \E metrics \in { MetricsLoop(f.lines, 1, f.language, FALSE, FALSE, FALSE,
                                    ZeroMetrics) } :
          /\ arg' = Append(arg, f)
          /\ ret' = (f.language :> AddToSummary(SummaryAt(ret, f.language), metrics,
                                                found, DefaultOptions)) @@ ret
    /\ UNCHANGED <<requestVars, op>>

\* lines 261-287 once the walk is over
FinalizeSummaries ==
    /\ op = "records"
    /\ arg # <<>>
    /\ op' = "analyzed"
    /\ ret' = FinalizeAll(ret)
    /\ UNCHANGED <<requestVars, arg>>

RecordsNext == AnalyzeFile \/ FinalizeSummaries

SpecRecords == RecordsInit /\ [][RecordsNext]_vars

(* C35 *)

\* the visit that analysed the file at filePath
VisitOf(filePath) ==
    CHOOSE n \in 1..Len(arg) : RecordPath(n, arg[n].language) = filePath

\* the number of the line whose reading made the brace extractor emit the
\* record starting at line s
EmittedAt(lines, s) ==
    Min({ p \in 1..Len(lines) :
            \E r \in Range(BraceLoop(SubSeq(lines, 1, p), 1, BraceInit, "C",
                                     <<"w", "m.c">>).out) : r.lineNumber = s }
        \cup {Len(lines) + 1})

\* the line on which the record d of a file of these lines was closed
ClosedAt(d, lines) ==
    IF d.language = "Python" THEN BodyEnd(lines, d.lineNumber) - 1
    ELSE EmittedAt(lines, d.lineNumber)

\* C35: every function record of either extractor on a file of n lines has
\* 1 <= startLine <= n, length >= 1 and length <= closing line - startLine
\* + 1, the closing line being a line of the file; and after the analysis
\* each language's functionCount is the number of its detail records and
\* the number of its recorded lengths.
C35_RecordBounds ==
    op \in {"records", "analyzed"} =>
        \A k \in DOMAIN ret :
           /\ \A m \in 1..Len(ret[k].functions.details) :
                 LET d     == ret[k].functions.details[m]
                     lines == arg[VisitOf(d.filePath)].lines
                 IN  /\ d.language = k
                     /\ 1 <= d.lineNumber /\ d.lineNumber <= Len(lines)
                     /\ d.length >= 1
                     /\ \E closed \in {ClosedAt(d, lines)} :
                           /\ closed <= Len(lines)
                           /\ d.length <= closed - d.lineNumber + 1
           /\ Len(ret[k].functions.details) = Len(ret[k].functions.lengths)
           /\ op = "analyzed" =>
                 /\ ret[k].functions.functionCount = Len(ret[k].functions.details)
                 /\ ret[k].functions.functionCount = Len(ret[k].functions.lengths)

C35_Witness ==
    /\ op = "analyzed"
    /\ arg = << [language |-> "C", lines |-> ForwardDeclExample],
                [language |-> "C", lines |-> AddExample] >>
    /\ ret["C"].functions.functionCount = 2
    /\ ret["C"].functions.lengths = <<3, 4>>
    /\ ret["C"].functions.details[1].lineNumber = 1
    /\ ret["C"].functions.details[2].length = 3


----------------------------------------------------------------------------
(* GET /attendance/next on detached threads.  m_attendanceCursor is a plain
   std::size_t member read and written without a lock; the accesses of the
   handler threads interleave at the granularity of its loads and stores. *)

\* the handler threads running at once and the largest roster
AttendanceThreads == {"t1", "t2"}
MaxRoster == 2

\* the cursor grows without limit when the threads leapfrog; the values
\* followed
MaxCursor == 4

\* the constructor: m_attendanceCursor(0); arg.students is the size of the
\* roster listStudents returns
AttendanceInit ==
    /\ IdleRequest
    /\ op = "attendance"
    /\ arg \in { [students |-> n] : n \in 0..MaxRoster }
    /\ ret = [cursor |-> 0,
              at     |-> [t \in AttendanceThreads |-> "idle"],
              index  |-> [t \in AttendanceThreads |-> 0]]

\* a request is accepted and handed to a thread of its own, which copies the
\* roster; an empty roster is answered at once
AttendanceAccept(t) ==
    /\ op = "attendance"
    /\ ret.at[t] = "idle"
    /\ ret' = [ret EXCEPT !.at[t] = IF arg.students = 0 THEN "idle" ELSE "check"]
    /\ UNCHANGED <<requestVars, op, arg>>

\* if (m_attendanceCursor >= students.size())
AttendanceCheck(t) ==
    /\ op = "attendance"
    /\ ret.at[t] = "check"
    /\ ret' = [ret EXCEPT !.at[t] = IF ret.cursor >= arg.students THEN "reset"
                                    ELSE "load"]
    /\ UNCHANGED <<requestVars, op, arg>>

\* m_attendanceCursor = 0
AttendanceReset(t) ==
    /\ op = "attendance"
    /\ ret.at[t] = "reset"
    /\ ret' = [ret EXCEPT !.cursor = 0, !.at[t] = "load"]
    /\ UNCHANGED <<requestVars, op, arg>>

\* students[m_attendanceCursor++]: the load of the cursor, its value being
\* the subscript
AttendanceLoad(t) ==
    /\ op = "attendance"
    /\ ret.at[t] = "load"
    /\ ret.cursor < MaxCursor
    /\ ret' = [ret EXCEPT !.index[t] = ret.cursor, !.at[t] = "store"]
    /\ UNCHANGED <<requestVars, op, arg>>

\* students[m_attendanceCursor++]: the store of the value loaded plus one;
\* the response is built and the thread ends
AttendanceStore(t) ==
    /\ op = "attendance"
    /\ ret.at[t] = "store"
    /\ ret' = [ret EXCEPT !.cursor = ret.index[t] + 1, !.at[t] = "idle"]
    /\ UNCHANGED <<requestVars, op, arg>>

AttendanceNext ==
    \E t \in AttendanceThreads :
        \/ AttendanceAccept(t)
        \/ AttendanceCheck(t)
        \/ AttendanceReset(t)
        \/ AttendanceLoad(t)
        \/ AttendanceStore(t)

SpecAttendance == AttendanceInit /\ [][AttendanceNext]_vars

(* C36 *)

\* C36: under any interleaving of concurrent GET /attendance/next requests
\* the index used to read the roster, the value of m_attendanceCursor
\* taken by students[m_attendanceCursor++], is less than students.size().
C36_IndexWithinRoster ==
    op = "attendance" =>
        \A t \in AttendanceThreads :
            ret.at[t] = "store" => ret.index[t] < arg.students


----------------------------------------------------------------------------
(* backend::GameEngine, Tank and RedEnvelope.  The doubles of Tank are kept
   in twentieths of a cell: every value the tank computes is a sum of the
   move step 1 and of the momentum terms 0.45, 0.6 and 3.5.  Times are whole
   seconds of steady_clock; 0 stands for the default time_point. *)

\* GameConfig: worldWidth, worldHeight, initialEnvelopeCount, timeLimitSeconds
WorldWidth == 4
WorldHeight == 1
InitialEnvelopeCount == 1
TimeLimitSeconds == 1

\* twentieths in one cell; the momentum terms of Tank::Tank with moveStep 1
Unit == 20
MomentumIncrement == 9
MomentumDecay == 12
MomentumMax == 70

Directions == {"Up", "Down", "Left", "Right", "None"}

\* radiusForSize
radiusForSize(size) ==
    IF size = "Small" THEN 1 ELSE IF size = "Medium" THEN 2 ELSE 3

\* randomValueForSize: the ends of the three ranges
randomValueForSize(size) ==
    IF size = "Small" THEN {5, 20}
    ELSE IF size = "Medium" THEN {21, 60}
    ELSE {61, 120}

\* the sizes drawn from m_rng here, and the value drawn for a size
SizeDraws == {"Small", "Medium"}
ValueDraws(size) == {Min(randomValueForSize(size))}

\* the cells widthDist and heightDist can yield
Cells == { <<x, y>> : x \in 0..(WorldWidth - 1), y \in 0..(WorldHeight - 1) }

\* std::round of a non-negative double
RoundCell(v) == (v + (Unit \div 2)) \div Unit

\* Tank::setPosition
TankAt(position) ==
    [position |-> position, exactX |-> position[1] * Unit,
     exactY |-> position[2] * Unit, currentMomentum |-> 0, lastDirection |-> "None"]

\* Tank::move, lines 38-105: the tank after the call
TankMove(tank, direction) ==
    IF direction = "None"
    THEN [tank EXCEPT !.currentMomentum = 0, !.lastDirection = "None"]
    ELSE LET momentum ==
                 IF tank.lastDirection = direction
                 THEN Min({tank.currentMomentum + MomentumIncrement, MomentumMax})
                 ELSE IF tank.currentMomentum > 0
                 THEN Max({0, tank.currentMomentum - MomentumDecay})
                 ELSE tank.currentMomentum
             delta == Unit + momentum
             rawX  == IF direction = "Left" THEN tank.exactX - delta
                      ELSE IF direction = "Right" THEN tank.exactX + delta
                      ELSE tank.exactX
             rawY  == IF direction = "Up" THEN tank.exactY - delta
                      ELSE IF direction = "Down" THEN tank.exactY + delta
                      ELSE tank.exactY
             maxX  == Max({0, WorldWidth - 1}) * Unit
             maxY  == Max({0, WorldHeight - 1}) * Unit
             nextX == Max({0, Min({rawX, maxX})})
             nextY == Max({0, Min({rawY, maxY})})
             clamped == nextX # rawX \/ nextY # rawY
         IN  [position |-> <<RoundCell(nextX), RoundCell(nextY)>>,
              exactX |-> nextX, exactY |-> nextY,
              currentMomentum |-> IF clamped THEN 0 ELSE momentum,
              lastDirection |-> direction]

\* the value Tank::move returns
TankMoved(tank, direction) ==
    direction # "None" /\ TankMove(tank, direction).position # tank.position

\* isColliding, Tank.cpp 115-124
isColliding(tank, envelope) ==
    LET dx == tank.position[1] - envelope.position[1]
        dy == tank.position[2] - envelope.position[2]
        radius == Max({0, envelope.collectionRadius})
    IN  (dx * dx) + (dy * dy) <= radius * radius

\* GameEngine::intersectsMovementPath, lines 269-305, in twentieths; the
\* comparisons with the square root are taken on the squares
intersectsMovementPath(startX, startY, endX, endY, envelope) ==
    LET radius == Max({0, envelope.collectionRadius}) * Unit
        dx == endX - startX
        dy == endY - startY
        fx == startX - (envelope.position[1] * Unit)
        fy == startY - (envelope.position[2] * Unit)
        a  == (dx * dx) + (dy * dy)
        b  == 2 * ((fx * dx) + (fy * dy))
        c  == (fx * fx) + (fy * fy) - (radius * radius)
        discriminant == (b * b) - (4 * a * c)
        t1Low  == b <= 0 /\ discriminant <= b * b
        t1High == b + (2 * a) >= 0 \/ discriminant >= (b + (2 * a)) * (b + (2 * a))
        t2Low  == b <= 0 \/ discriminant >= b * b
        t2High == b + (2 * a) >= 0 /\ discriminant <= (b + (2 * a)) * (b + (2 * a))
    IN  IF radius = 0 THEN FALSE
        ELSE IF dx = 0 /\ dy = 0 THEN (fx * fx) + (fy * fy) <= radius * radius
        ELSE IF discriminant < 0 THEN FALSE
        ELSE (t1Low /\ t1High) \/ (t2Low /\ t2High)

\* RedEnvelope(id, size, value, position, radiusForSize(size))
Envelope(id, size, value, position) ==
    [id |-> id, size |-> size, value |-> value, position |-> position,
     collectionRadius |-> radiusForSize(size)]

\* GameEngine::createRandomEnvelope: the envelopes the call can return.  The
\* cell of the tank is never free, so the 150 attempts can all fail and the
\* position of line 234, any cell, is returned.
createRandomEnvelope(id) ==
    UNION { { Envelope(id, size, value, position) :
                value \in ValueDraws(size), position \in Cells } :
            size \in SizeDraws }

\* GameEngine::respawnEnvelope with the id of the collected envelope kept
respawnEnvelopeKeepsId(e, index) ==
    IF index >= Len(e.envelopes) THEN {e}
    ELSE { [e EXCEPT !.envelopes[index + 1] = fresh] :
             fresh \in createRandomEnvelope(e.envelopes[index + 1].id) }

\* GameEngine::respawnEnvelope, lines 244-252: the engines the call can leave
respawnEnvelope(e, index) ==
    IF index >= Len(e.envelopes) THEN {e}
    ELSE { [e EXCEPT !.envelopes[index + 1] = fresh,
                     !.nextEnvelopeId = @ + 1] :
             fresh \in createRandomEnvelope(e.nextEnvelopeId) }

\* GameEngine::handleCollisions, lines 254-267, from index i on
RECURSIVE CollisionLoop(_, _, _, _)
CollisionLoop(e, i, previousX, previousY) ==
    IF i >= Len(e.envelopes) THEN {e}
    ELSE IF \/ isColliding(e.tank, e.envelopes[i + 1])
            \/ intersectsMovementPath(previousX, previousY, e.tank.exactX,
                                      e.tank.exactY, e.envelopes[i + 1])
    THEN UNION { CollisionLoop(r, i + 1, previousX, previousY) :
                   r \in respawnEnvelope(
                            [e EXCEPT !.stats.collectedCount = @ + 1,
                                      !.stats.collectedValue =
                                          @ + e.envelopes[i + 1].value], i) }
    ELSE CollisionLoop(e, i + 1, previousX, previousY)

handleCollisions(e, previousX, previousY) == CollisionLoop(e, 0, previousX, previousY)

\* lines 88-91 and 160-162: count envelopes are created and appended
RECURSIVE EmplaceEnvelopes(_, _)
EmplaceEnvelopes(e, count) ==
    IF count <= 0 THEN {e}
    ELSE UNION { EmplaceEnvelopes([e EXCEPT !.envelopes = Append(@, fresh),
                                            !.nextEnvelopeId = @ + 1], count - 1) :
                   fresh \in createRandomEnvelope(e.nextEnvelopeId) }

\* GameEngine::elapsedSeconds, lines 117-128
elapsedSeconds(e, now) ==
    IF e.startTime = 0 THEN 0
    ELSE LET until == IF e.paused /\ e.pauseStart # 0 THEN e.pauseStart ELSE now
         IN  Max({0, (until - e.startTime) - e.pausedAccumulated})

\* GameEngine::isTimeUp
isTimeUp(e, now) == elapsedSeconds(e, now) >= TimeLimitSeconds

\* the members before the constructor body runs
NewEngine ==
    [tank |-> TankAt(<<WorldWidth \div 2, WorldHeight \div 2>>),
     envelopes |-> <<>>,
     stats |-> [collectedCount |-> 0, collectedValue |-> 0],
     nextEnvelopeId |-> 0, paused |-> FALSE, pausedAccumulated |-> 0,
     pauseStart |-> 0, startTime |-> 0]

\* GameEngine::reset, lines 77-99: the engines the call can leave
reset(e, now) ==
    LET cleared == [e EXCEPT
                      !.stats = [collectedCount |-> 0, collectedValue |-> 0],
                      !.envelopes = <<>>,
                      !.tank = TankAt(<<WorldWidth \div 2, WorldHeight \div 2>>),
                      !.nextEnvelopeId = 0, !.paused = FALSE,
                      !.pausedAccumulated = 0, !.pauseStart = 0]
    IN  UNION { handleCollisions([filled EXCEPT !.startTime = now],
                                 filled.tank.exactX, filled.tank.exactY) :
                  filled \in EmplaceEnvelopes(cleared, InitialEnvelopeCount) }

\* GameEngine::moveTank without the test of m_paused in line 102
moveTankIgnoresPause(e, direction, now) ==
    IF isTimeUp(e, now) THEN { [engine |-> e, returned |-> FALSE] }
    ELSE { [engine |-> after, returned |-> TankMoved(e.tank, direction)] :
             after \in handleCollisions([e EXCEPT !.tank = TankMove(@, direction)],
                                        e.tank.exactX, e.tank.exactY) }

\* GameEngine::moveTank, lines 101-111: the engines the call can leave and
\* the value it returns
moveTank(e, direction, now) ==
    IF isTimeUp(e, now) \/ e.paused THEN { [engine |-> e, returned |-> FALSE] }
    ELSE { [engine |-> after, returned |-> TankMoved(e.tank, direction)] :
             after \in handleCollisions([e EXCEPT !.tank = TankMove(@, direction)],
                                        e.tank.exactX, e.tank.exactY) }

\* GameEngine::spawnBonusEnvelopes, lines 150-165
spawnBonusEnvelopes(e, minCount, maxCount) ==
    LET lowest  == IF minCount <= 0 THEN 1 ELSE minCount
        highest == IF maxCount < lowest THEN lowest ELSE maxCount
    IN  UNION { { [engine |-> after, returned |-> spawnCount] :
                    after \in EmplaceEnvelopes(e, spawnCount) } :
                spawnCount \in lowest..highest }

\* GameEngine::pause, lines 167-173
pause(e, now) ==
    IF e.paused THEN e ELSE [e EXCEPT !.paused = TRUE, !.pauseStart = now]

\* GameEngine::resume, lines 175-185
resume(e, now) ==
    IF ~e.paused THEN e
    ELSE [e EXCEPT !.pausedAccumulated =
                       IF e.pauseStart # 0 THEN @ + (now - e.pauseStart) ELSE @,
                   !.paused = FALSE, !.pauseStart = 0]

\* GameEngine::togglePause, lines 187-194
togglePause(e, now) ==
    LET after == IF e.paused THEN resume(e, now) ELSE pause(e, now)
    IN  [engine |-> after, returned |-> after.paused]

----------------------------------------------------------------------------
(* One caller of a GameEngine: the constructor, then calls of its public
   functions while the clock advances *)

\* the most calls, the most envelopes created, and the last second followed
MaxCalls == 3
MaxDrawn == 3
MaxClock == 2

\* the arguments of spawnBonusEnvelopes
SpawnInputs == { <<0, 0>>, <<1, 2>>, <<2, 1>> }

\* the envelopes of the list after that are not the ones of the list before
Respawned(before, after) ==
    Cardinality({ i \in 1..Len(before) : after[i].id # before[i].id })

\* the list reset fills before it looks for collisions, as far as ids go
FreshIds == [i \in 1..InitialEnvelopeCount |-> [id |-> i - 1]]

\* the record of the call just made
Called(name, input, returned, drawn, spawned, respawned) ==
    [arg EXCEPT !.calls = @ + 1, !.call = name, !.input = input,
                !.returned = returned, !.drawn = drawn, !.spawned = spawned,
                !.respawned = respawned]

\* GameEngine::GameEngine, lines 60-75, at second 1
EngineInit ==
    /\ IdleRequest
    /\ op = "engine"
    /\ ret \in reset(NewEngine, 1)
    /\ arg = [now |-> 1, calls |-> 0, call |-> "GameEngine", input |-> <<>>,
              returned |-> FALSE, drawn |-> ret.nextEnvelopeId, spawned |-> 0,
              respawned |-> Respawned(FreshIds, ret.envelopes)]

CallReset ==
    /\ op = "engine"
    /\ arg.calls < MaxCalls
    /\ \E after \in reset(ret, arg.now) :
          /\ arg.drawn + after.nextEnvelopeId <= MaxDrawn
          /\ ret' = after
          /\ arg' = Called("reset", <<>>, FALSE, arg.drawn + after.nextEnvelopeId, 0,
                           Respawned(FreshIds, after.envelopes))
    /\ UNCHANGED <<requestVars, op>>

CallMoveTank ==
    /\ op = "engine"
    /\ arg.calls < MaxCalls
    /\ \E direction \in Directions :
       \E r \in moveTank(ret, direction, arg.now) :
          /\ arg.drawn + (r.engine.nextEnvelopeId - ret.nextEnvelopeId) <= MaxDrawn
          /\ ret' = r.engine
          /\ arg' = Called("moveTank", <<direction>>, r.returned,
                           arg.drawn + (r.engine.nextEnvelopeId - ret.nextEnvelopeId),
                           arg.spawned,
                           arg.respawned + Respawned(ret.envelopes, r.engine.envelopes))
    /\ UNCHANGED <<requestVars, op>>

CallSpawnBonusEnvelopes ==
    /\ op = "engine"
    /\ arg.calls < MaxCalls
    /\ \E input \in SpawnInputs :
       \E r \in spawnBonusEnvelopes(ret, input[1], input[2]) :
          /\ arg.drawn + r.returned <= MaxDrawn
          /\ ret' = r.engine
          /\ arg' = Called("spawnBonusEnvelopes", input, r.returned,
                           arg.drawn + r.returned, arg.spawned + r.returned,
                           arg.respawned + Respawned(ret.envelopes, r.engine.envelopes))
    /\ UNCHANGED <<requestVars, op>>

CallPause ==
    /\ op = "engine"
    /\ arg.calls < MaxCalls
    /\ ret' = pause(ret, arg.now)
    /\ arg' = Called("pause", <<>>, FALSE, arg.drawn, arg.spawned, arg.respawned)
    /\ UNCHANGED <<requestVars, op>>

CallResume ==
    /\ op = "engine"
    /\ arg.calls < MaxCalls
    /\ ret' = resume(ret, arg.now)
    /\ arg' = Called("resume", <<>>, FALSE, arg.drawn, arg.spawned, arg.respawned)
    /\ UNCHANGED <<requestVars, op>>

CallTogglePause ==
    /\ op = "engine"
    /\ arg.calls < MaxCalls
    /\ \E r \in {togglePause(ret, arg.now)} :
          /\ ret' = r.engine
          /\ arg' = Called("togglePause", <<>>, r.returned, arg.drawn, arg.spawned,
                           arg.respawned)
    /\ UNCHANGED <<requestVars, op>>

\* steady_clock::now() grows between the calls
ClockTick ==
    /\ op = "engine"
    /\ arg.now < MaxClock
    /\ arg' = [arg EXCEPT !.now = @ + 1]
    /\ UNCHANGED <<requestVars, op, ret>>

EngineNext ==
    \/ CallReset
    \/ CallMoveTank
    \/ CallSpawnBonusEnvelopes
    \/ CallPause
    \/ CallResume
    \/ CallTogglePause
    \/ ClockTick

SpecEngine == EngineInit /\ [][EngineNext]_vars


(* C38 *)

\* C38: while the engine is paused moveTank returns false and leaves the
\* tank position, the collection stats and the envelope list as they were,
\* whatever calls came before; pause on a paused engine and resume on a
\* running engine change nothing; pause leaves the engine paused, resume
\* leaves it running, and togglePause flips m_paused and returns its new
\* value.
C38_PausedEngineFrozen ==
    [][ (op = "engine" /\ arg'.calls = arg.calls + 1) =>
          /\ (arg'.call = "moveTank" /\ ret.paused) =>
                /\ arg'.returned = FALSE
                /\ ret'.tank.position = ret.tank.position
                /\ ret'.stats = ret.stats
                /\ ret'.envelopes = ret.envelopes
                /\ ret'.paused
          /\ (arg'.call = "pause" /\ ret.paused) => ret' = ret
          /\ (arg'.call = "resume" /\ ~ret.paused) => ret' = ret
          /\ arg'.call = "pause" => ret'.paused
          /\ arg'.call = "resume" => ~ret'.paused
          /\ arg'.call = "togglePause" =>
                /\ ret'.paused = ~ret.paused
                /\ arg'.returned = ret'.paused ]_vars

C38_Witness ==
    /\ op = "engine"
    /\ arg.calls = 3 /\ arg.call = "moveTank" /\ arg.input = <<"Left">>
    /\ ret.paused /\ ~isTimeUp(ret, arg.now)
    /\ arg.returned = FALSE
    /\ ret.tank.position = <<WorldWidth \div 2, WorldHeight \div 2>>

(* C39 *)

\* C39: collecting never removes envelopes and never reuses ids.  After any
\* calls of moveTank, spawnBonusEnvelopes and reset the envelope list holds
\* initialEnvelopeCount envelopes plus those spawned since the last reset,
\* the ids in the list are pairwise distinct (and below m_nextEnvelopeId),
\* and collectedCount is the number of envelopes respawned since the last
\* reset.
C39_EnvelopesKept ==
    op = "engine" =>
        /\ Len(ret.envelopes) = InitialEnvelopeCount + arg.spawned
        /\ \A i, j \in 1..Len(ret.envelopes) :
              i # j => ret.envelopes[i].id # ret.envelopes[j].id
        /\ \A i \in 1..Len(ret.envelopes) : ret.envelopes[i].id < ret.nextEnvelopeId
        /\ ret.stats.collectedCount = arg.respawned

C39_Witness ==
    /\ op = "engine"
    /\ arg.call = "moveTank" /\ arg.returned = TRUE
    /\ arg.spawned = 1 /\ Len(ret.envelopes) = 2
    /\ ret.stats.collectedCount = 1
    /\ ret.envelopes[1].id = 0 /\ ret.envelopes[2].id = 2


----------------------------------------------------------------------------
(* The request handlers that use the game engine: /move, /reset, /rain,
   /pause and /state, each on a detached thread of its own.  The engine is
   kept as the members the handlers read and write: whether it is paused and
   how often it was moved, filled and reset; timeUp is what isTimeUp()
   answers. *)

HandlerThreads == {"h1", "h2"}

\* the most requests served
MaxRequests == 3

\* the requests: the path and what parseDirection or parseAction makes of
\* the body
EngineRequests ==
    { [path |-> "/move", input |-> d] : d \in {"Left", "None"} }
    \cup { [path |-> "/pause", input |-> a] : a \in {"pause", "resume", "toggle"} }
    \cup { [path |-> p, input |-> ""] : p \in {"/reset", "/rain", "/state"} }

\* the first use of the engine a handler makes once it holds the mutex
FirstStep(path) ==
    IF path = "/move" THEN "isTimeUp"
    ELSE IF path = "/reset" THEN "reset"
    ELSE IF path = "/rain" THEN "spawnBonusEnvelopes"
    ELSE IF path = "/pause" THEN "pauseAction"
    ELSE "getStats"

\* the positions at which a handler is about to use the engine
EngineSteps ==
    {"isTimeUp", "moveTank", "reset", "spawnBonusEnvelopes", "pauseAction",
     "isPaused", "getStats", "getEnvelopes"}

HandlersInit ==
    /\ IdleRequest
    /\ op = "handlers"
    /\ arg = [served |-> 0]
    /\ ret = [mutex  |-> "none",
              at     |-> [t \in HandlerThreads |-> "idle"],
              route  |-> [t \in HandlerThreads |-> [path |-> "", input |-> ""]],
              seen   |-> [t \in HandlerThreads |->
                            [paused |-> FALSE, moves |-> 0, filled |-> 0, resets |-> 0]],
              engine |-> [paused |-> FALSE, moves |-> 0, filled |-> 0, resets |-> 0],
              timeUp |-> FALSE]

\* run, lines 419-429, and handleClient: the request is read on a new thread
HandlerAccept(t) ==
    /\ op = "handlers"
    /\ ret.at[t] = "idle"
    /\ arg.served + Cardinality({ u \in HandlerThreads : ret.at[u] # "idle" })
         < MaxRequests
    /\ \E request \in EngineRequests :
          ret' = [ret EXCEPT !.at[t] = "lock", !.route[t] = request]
    /\ UNCHANGED <<requestVars, op, arg>>

\* std::lock_guard taking m_engineMutex although another thread holds it
HandlerLockNoWait(t) ==
    /\ op = "handlers"
    /\ ret.at[t] = "lock"
    /\ ret' = [ret EXCEPT !.mutex = t, !.at[t] = FirstStep(ret.route[t].path)]
    /\ UNCHANGED <<requestVars, op, arg>>

\* std::lock_guard<std::mutex> guard(m_engineMutex), lines 681, 697, 708,
\* 720 and 855
HandlerLock(t) ==
    /\ op = "handlers"
    /\ ret.at[t] = "lock"
    /\ ret.mutex = "none"
    /\ ret' = [ret EXCEPT !.mutex = t, !.at[t] = FirstStep(ret.route[t].path)]
    /\ UNCHANGED <<requestVars, op, arg>>

\* line 682: timeUp = m_engine.isTimeUp(), and the test of line 683
MoveIsTimeUp(t) ==
    /\ op = "handlers"
    /\ ret.at[t] = "isTimeUp"
    /\ ret' = [ret EXCEPT
                 !.seen[t] = ret.engine,
                 !.at[t] = IF ~ret.timeUp /\ ret.route[t].input # "None"
                           THEN "moveTank" ELSE "unlock"]
    /\ UNCHANGED <<requestVars, op, arg>>

\* line 684: moved = m_engine.moveTank(direction)
MoveMoveTank(t) ==
    /\ op = "handlers"
    /\ ret.at[t] = "moveTank"
    /\ ret' = [ret EXCEPT
                 !.engine.moves = IF ret.timeUp \/ ret.engine.paused THEN @ ELSE @ + 1,
                 !.at[t] = "unlock"]
    /\ UNCHANGED <<requestVars, op, arg>>

\* lines 698-701: setRandomSeed and reset
ResetEngine(t) ==
    /\ op = "handlers"
    /\ ret.at[t] = "reset"
    /\ ret' = [ret EXCEPT
                 !.engine = [paused |-> FALSE, moves |-> 0, filled |-> 0,
                             resets |-> ret.engine.resets + 1],
                 !.timeUp = FALSE,
                 !.at[t] = "unlock"]
    /\ UNCHANGED <<requestVars, op, arg>>

\* line 709: spawned = m_engine.spawnBonusEnvelopes(5, 10)
RainSpawn(t) ==
    /\ op = "handlers"
    /\ ret.at[t] = "spawnBonusEnvelopes"
    /\ ret' = [ret EXCEPT !.engine.filled = @ + 1, !.at[t] = "unlock"]
    /\ UNCHANGED <<requestVars, op, arg>>

\* lines 721-727: pause, resume or togglePause
PauseAction(t) ==
    /\ op = "handlers"
    /\ ret.at[t] = "pauseAction"
    /\ ret' = [ret EXCEPT
                 !.engine.paused = IF ret.route[t].input = "pause" THEN TRUE
                                   ELSE IF ret.route[t].input = "resume" THEN FALSE
                                   ELSE ~@,
                 !.at[t] = "isPaused"]
    /\ UNCHANGED <<requestVars, op, arg>>

\* line 728: paused = m_engine.isPaused()
PauseIsPaused(t) ==
    /\ op = "handlers"
    /\ ret.at[t] = "isPaused"
    /\ ret' = [ret EXCEPT !.seen[t] = ret.engine, !.at[t] = "unlock"]
    /\ UNCHANGED <<requestVars, op, arg>>

\* buildStateJson, lines 856-871: config, stats, tank, time left and pause
StateGetStats(t) ==
    /\ op = "handlers"
    /\ ret.at[t] = "getStats"
    /\ ret' = [ret EXCEPT !.seen[t] = ret.engine, !.at[t] = "getEnvelopes"]
    /\ UNCHANGED <<requestVars, op, arg>>

\* buildStateJson, lines 874-900: the loop over getEnvelopes()
StateGetEnvelopes(t) ==
    /\ op = "handlers"
    /\ ret.at[t] = "getEnvelopes"
    /\ ret' = [ret EXCEPT !.at[t] = "unlock"]
    /\ UNCHANGED <<requestVars, op, arg>>

\* the guard goes out of scope; the response is sent and the thread ends
HandlerUnlock(t) ==
    /\ op = "handlers"
    /\ ret.at[t] = "unlock"
    /\ ret' = [ret EXCEPT !.mutex = "none", !.at[t] = "idle"]
    /\ arg' = [arg EXCEPT !.served = @ + 1]
    /\ UNCHANGED <<requestVars, op>>

\* the time limit passes while the engine runs
TimeRunsOut ==
    /\ op = "handlers"
    /\ ~ret.timeUp /\ ~ret.engine.paused
    /\ ret' = [ret EXCEPT !.timeUp = TRUE]
    /\ UNCHANGED <<requestVars, op, arg>>

HandlersNext ==
    \/ \E t \in HandlerThreads :
          \/ HandlerAccept(t)
          \/ HandlerLock(t)
          \/ MoveIsTimeUp(t)
          \/ MoveMoveTank(t)
          \/ ResetEngine(t)
          \/ RainSpawn(t)
          \/ PauseAction(t)
          \/ PauseIsPaused(t)
          \/ StateGetStats(t)
          \/ StateGetEnvelopes(t)
          \/ HandlerUnlock(t)
    \/ TimeRunsOut

SpecHandlers == HandlersInit /\ [][HandlersNext]_vars

(* C37 *)

\* C37: a handler thread of /move, /reset, /rain, /pause or /state reads or
\* writes the engine only while it holds m_engineMutex, so no two handler
\* threads are inside the engine at once; and in /move the members of the
\* engine are, when moveTank is called, what they were when isTimeUp was
\* asked: no other request came in between.
C37_EngineUnderMutex ==
    op = "handlers" =>
        /\ \A t \in HandlerThreads :
              ret.at[t] \in EngineSteps \cup {"unlock"} => ret.mutex = t
        /\ \A t, u \in HandlerThreads :
              (ret.at[t] \in EngineSteps /\ ret.at[u] \in EngineSteps) => t = u
        /\ \A t \in HandlerThreads :
              ret.at[t] = "moveTank" => ret.engine = ret.seen[t]

C37_Witness ==
    /\ op = "handlers"
    /\ ret.at["h1"] = "moveTank" /\ ret.route["h1"].path = "/move"
    /\ ret.at["h2"] = "lock" /\ ret.route["h2"].path = "/reset"
    /\ ret.mutex = "h1"
    /\ ret.engine.paused /\ arg.served = 1

====
